---------------------------- MODULE Spec2Model ----------------------------
(***************************************************************************)
(* Model of the earthquake record selection service:                      *)
(*   - SearchCriteria (construction, effective target, sigma),             *)
(*   - the scoring engine (BaseSelectionStrategy._calculate_total_score),  *)
(*   - the selection engine (BaseSelectionStrategy._apply_selection_rules),*)
(*   - the pipeline orchestrator (EarthquakePipeline), sync and async.     *)
(*                                                                         *)
(* Python floats are modelled exactly as normalised rationals <<n, d>>     *)
(* with d > 0, Python strings held in table cells as 1-tuples <<"s">>,     *)
(* and Python None and pandas NaN as the empty tuple None.  math.exp is    *)
(* modelled by a fixed-point table (ExpNeg).                               *)
(***************************************************************************)
EXTENDS Integers, Sequences, FiniteSets, TLC

VARIABLES
    \* --- SearchCriteria object and helper calls on it
    criteria,       \* the constructed SearchCriteria instance, or None
    ctorError,      \* "none", or the outcome of the constructor call
    call,           \* last helper call: [op, key, value]
    \* --- scoring engine
    record,         \* the record (row) last scored, or None
    SCORE,          \* the score computed for it, or None
    \* --- selection engine
    config,         \* the strategy's SelectionConfig
    df_scored,      \* the scored table handed to _apply_selection_rules
    sorted_df,      \* the filtered table in the order the walk visits it
    selected_df,    \* the table returned
    selDone,        \* whether _apply_selection_rules has returned
    \* --- pipeline: what the caller and the outside world supply
    outcomes,       \* per provider, what its map_criteria / fetch call does
    validation,     \* what the two validate() calls of the first stage do
    strategy,       \* the ISelectionStrategy passed to the run
    \* --- pipeline: the current run
    requested,      \* the strategy_name argument of run_sync / run_async
    mode,           \* "none", "sync" (execute_sync) or "async" (execute_async)
    pc,             \* index in Funcs of the stage to call next; 0 before a run
    context,        \* the run's PipelineContext
    current_result, \* current_result of the composed function
    pipeline_result,\* the PipelineResult built by the last stage, if any
    executed,       \* the stages called in this run, with their results
    calls,          \* per provider, the number of map_criteria calls of this run
    tasks,          \* async: per provider, the state of its fetch task
    task_results,   \* async: per provider, the Result its task returned
    completed,      \* async: the providers in the order their tasks completed
    \* --- pipeline: finished runs
    history,        \* one summary per run that has returned
    \* --- pipeline: runs in progress at the same time on one pipeline
    runs,           \* per invocation, its PipelineContext and what it returned
    lists,          \* the list objects the contexts refer to
    \* --- the cache and the proxy in front of a provider
    cache,          \* the files of the cache directory, the clock, the expiry age
    proxy_call      \* the last fetch made through a CachedProviderProxy

critVars  == <<criteria, ctorError, call>>
scoreVars == <<record, SCORE>>
selVars   == <<config, df_scored, sorted_df, selected_df, selDone>>
cacheVars == <<cache, proxy_call>>
concVars  == <<runs, lists, cacheVars>>
inputVars == <<outcomes, validation, strategy, concVars>>
runVars   == <<requested, mode, pc, context, current_result, pipeline_result, executed,
               calls, tasks, task_results, completed, history>>
pipeVars  == <<inputVars, runVars>>
vars == <<criteria, ctorError, call, record, SCORE,
          config, df_scored, sorted_df, selected_df, selDone,
          outcomes, validation, strategy,
          requested, mode, pc, context, current_result, pipeline_result,
          executed, calls, tasks, task_results, completed, history,
          runs, lists, cache, proxy_call>>

None == <<>>

-----------------------------------------------------------------------------
(* Exact rational arithmetic standing for Python float arithmetic.         *)

Abs(x) == IF x < 0 THEN -x ELSE x

RECURSIVE GCD(_, _)
GCD(a, b) == IF b = 0 THEN a ELSE GCD(b, a % b)

RNorm(n, d) ==
    LET g == GCD(Abs(n), d) IN <<n \div g, d \div g>>

RInt(i)    == <<i, 1>>
RAdd(a, b) == RNorm(a[1] * b[2] + b[1] * a[2], a[2] * b[2])
RSub(a, b) == RNorm(a[1] * b[2] - b[1] * a[2], a[2] * b[2])
RMul(a, b) == RNorm(a[1] * b[1], a[2] * b[2])
\* a / b for b # 0
RDiv(a, b) ==
    IF b[1] > 0 THEN RNorm(a[1] * b[2], a[2] * b[1])
                ELSE RNorm(-(a[1] * b[2]), a[2] * (-b[1]))
RLt(a, b)  == a[1] * b[2] < b[1] * a[2]
RLe(a, b)  == a[1] * b[2] <= b[1] * a[2]
RZero      == <<0, 1>>
ROne       == <<1, 1>>

\* round(1000 * exp(-k/8)) for k = 0 .. 60
ExpTable ==
    <<1000, 882, 779, 687, 607, 535, 472, 417, 368, 325, 287, 253, 223, 197,
      174, 153, 135, 119, 105, 93, 82, 72, 64, 56, 50, 44, 39, 34, 30, 27, 24,
      21, 18, 16, 14, 13, 11, 10, 9, 8, 7, 6, 5, 5, 4, 4, 3, 3, 2, 2, 2, 2, 2,
      1, 1, 1, 1, 1, 1, 1, 1>>

\* math.exp(-q) for a rational q >= 0, in thousandths: q is rounded up to the
\* next multiple of 1/8, so exp(-0) = 1 exactly and exp(-q) < 1 for q > 0.
ExpNeg(q) ==
    LET k == (8 * q[1] + q[2] - 1) \div q[2]
    IN  IF k + 1 > Len(ExpTable) THEN RZero ELSE RNorm(ExpTable[k + 1], 1000)

-----------------------------------------------------------------------------
(* Config.py: the scoring registry.                                        *)

\* iteration order of the SCORING_MAP dict
ScoringKeys ==
    <<"magnitude", "rjb", "rrup", "repi", "vs30", "pga", "pgv", "pgd",
      "t90", "arias", "depth", "mechanism">>

SCORING_MAP ==
    [ magnitude |-> [column |-> "MAGNITUDE",    weight |-> <<5, 1>>, sigma_strictness |-> 4, type |-> "numeric"],
      rjb       |-> [column |-> "RJB(km)",      weight |-> <<9, 2>>, sigma_strictness |-> 3, type |-> "numeric"],
      rrup      |-> [column |-> "RRUP(km)",     weight |-> <<9, 2>>, sigma_strictness |-> 3, type |-> "numeric"],
      repi      |-> [column |-> "REPI(km)",     weight |-> <<4, 1>>, sigma_strictness |-> 3, type |-> "numeric"],
      vs30      |-> [column |-> "VS30(m/s)",    weight |-> <<4, 1>>, sigma_strictness |-> 5, type |-> "numeric"],
      pga       |-> [column |-> "PGA(cm2/sec)", weight |-> <<7, 2>>, sigma_strictness |-> 4, type |-> "numeric"],
      pgv       |-> [column |-> "PGV(cm/sec)",  weight |-> <<3, 1>>, sigma_strictness |-> 4, type |-> "numeric"],
      pgd       |-> [column |-> "PGD(cm)",      weight |-> <<5, 2>>, sigma_strictness |-> 3, type |-> "numeric"],
      t90       |-> [column |-> "T90_avg(sec)", weight |-> <<3, 1>>, sigma_strictness |-> 3, type |-> "numeric"],
      arias     |-> [column |-> "ARIAS_INTENSITY(m/sec)", weight |-> <<2, 1>>, sigma_strictness |-> 3, type |-> "numeric"],
      depth     |-> [column |-> "HYPO_DEPTH(km)", weight |-> <<2, 1>>, sigma_strictness |-> 2, type |-> "numeric"],
      mechanism |-> [column |-> "MECHANISM",    weight |-> <<3, 1>>, type |-> "categorical"] ]

NumericKeys == {k \in DOMAIN SCORING_MAP : SCORING_MAP[k].type = "numeric"}

\* values of MECHANISM_MAP
MECHANISM_LABELS ==
    {"StrikeSlip", "Normal", "Reverse", "Reverse/Oblique", "Normal/Oblique",
     "Oblique", "Unknown"}

-----------------------------------------------------------------------------
(* Selection.py: ScoringWeights and SearchCriteria.                        *)

\* ScoringWeights(): every weight defaults to the registry's weight
DefaultWeights == [k \in DOMAIN SCORING_MAP |-> SCORING_MAP[k].weight]

\* ScoringWeights.get_weight: getattr(self, key, 0.0)
get_weight(weights, key) ==
    IF key \in DOMAIN weights THEN weights[key] ELSE RZero

\* the Optional[float] fields of SearchCriteria that bound or target a
\* scorable quantity, spelled as declared
RangeFields ==
    {"min_magnitude", "max_magnitude", "min_depth", "max_depth",
     "min_pga", "max_pga", "min_pgv", "max_pgv", "min_pgd", "max_pgd",
     "min_Repi", "max_Repi", "min_Rhyp", "max_Rhyp", "min_Rjb", "max_Rjb",
     "min_Rrup", "max_Rrup", "min_vs30", "max_vs30"}

TargetFields == {"target_" \o k : k \in NumericKeys}

FloatFields == RangeFields \cup TargetFields

\* getattr(self, name, None) on a SearchCriteria
GetAttr(c, name) == IF name \in DOMAIN c.f THEN c.f[name] ELSE None

\* SearchCriteria.get_effective_target
get_effective_target(c, key) ==
    LET explicit == GetAttr(c, "target_" \o key)
        min_val  == GetAttr(c, "min_" \o key)
        max_val  == GetAttr(c, "max_" \o key)
    IN  IF explicit # None THEN explicit
        ELSE IF min_val # None /\ max_val # None
             THEN RDiv(RAdd(min_val, max_val), RInt(2))
        ELSE IF min_val # None THEN min_val
        ELSE max_val

\* SearchCriteria.get_sigma
get_sigma(c, key) ==
    LET strictness ==
            IF key \in DOMAIN SCORING_MAP
               /\ "sigma_strictness" \in DOMAIN SCORING_MAP[key]
            THEN RInt(SCORING_MAP[key].sigma_strictness) ELSE RInt(4)
        min_val == GetAttr(c, "min_" \o key)
        max_val == GetAttr(c, "max_" \o key)
        target  == get_effective_target(c, key)
    IN  IF min_val # None /\ max_val # None
        THEN (LET diff == RSub(max_val, min_val)
              IN  IF RLt(RZero, diff) THEN RDiv(diff, strictness) ELSE ROne)
        ELSE IF target # None /\ target # RZero
             THEN RMul(target, <<1, 10>>) ELSE ROne

-----------------------------------------------------------------------------
(* Selection.py: the scoring engine of BaseSelectionStrategy.              *)

\* a table cell: a number <<n, d>>, a text <<"s">>, or None (NaN)
IsNumber(v) == Len(v) = 2
IsText(v)   == Len(v) = 1

\* pd.isna(v)
IsNa(v) == v = None

\* Python truthiness of a cell: None, NaN-free 0 and "" are falsy
Truthy(v) ==
    IF IsNumber(v) THEN v # RZero
    ELSE IF IsText(v) THEN v[1] # ""
    ELSE FALSE

\* the pieces that can surround a mechanism label inside a compound label
Affixes == {"", "Reverse/", "Normal/", "/Oblique"}

\* Python's `t in s` for strings
Substring(t, s) == \E p \in Affixes, u \in Affixes : p \o t \o u = s

\* BaseSelectionStrategy._gaussian_score
_gaussian_score(value, target, sigma) ==
    IF value = None \/ target = None \/ IsNa(value) THEN RZero
    ELSE LET diff == RSub(value, target)
         IN  ExpNeg(RDiv(RMul(diff, diff), RMul(RInt(2), RMul(sigma, sigma))))

\* mutant: the partial match is tested before the exact match
_categorical_score_PartialFirst(record_val, target_list) ==
    IF ~Truthy(record_val) \/ Len(target_list) = 0 THEN RZero
    ELSE IF ~IsText(record_val) THEN RZero
    ELSE IF \E i \in 1..Len(target_list) : Substring(target_list[i], record_val[1])
         THEN <<7, 10>>
    ELSE IF \E i \in 1..Len(target_list) : target_list[i] = record_val[1] THEN ROne
    ELSE RZero

\* BaseSelectionStrategy._categorical_score; str() of a number never holds a label
_categorical_score(record_val, target_list) ==
    IF ~Truthy(record_val) \/ Len(target_list) = 0 THEN RZero
    ELSE IF ~IsText(record_val) THEN RZero
    ELSE IF \E i \in 1..Len(target_list) : target_list[i] = record_val[1] THEN ROne
    ELSE IF \E i \in 1..Len(target_list) : Substring(target_list[i], record_val[1])
         THEN <<7, 10>>
    ELSE RZero

\* step 1 of the loop body: the target of this parameter, None when there is none
TargetOf(c, key) ==
    IF key = "mechanism"
    THEN (IF Len(c.mechanisms) = 0 THEN None ELSE c.mechanisms)
    ELSE get_effective_target(c, key)

\* step 2: `col_name not in record or pd.isna(record[col_name])`
FieldMissing(rec, key) ==
    LET col_name == SCORING_MAP[key].column
    IN  col_name \notin DOMAIN rec \/ IsNa(rec[col_name])

\* mutant: only a zero weight is skipped, a negative one is counted
WeightSkipped_ZeroOnly(weight) == weight = RZero

\* step 3: `if weight <= 0: continue`
WeightSkipped(weight) == RLe(weight, RZero)

\* the three `continue` guards of the loop body: does key take part in the score
ParamActive(rec, c, key) ==
    /\ TargetOf(c, key) # None
    /\ ~FieldMissing(rec, key)
    /\ ~WeightSkipped(get_weight(c.weights, key))

\* step 4: the similarity of an active parameter
ParamScore(rec, c, key) ==
    LET entry == SCORING_MAP[key]
        value == rec[entry.column]
    IN  IF entry.type = "numeric"
        THEN _gaussian_score(value, TargetOf(c, key), get_sigma(c, key))
        ELSE IF entry.type = "categorical"
        THEN _categorical_score(value, TargetOf(c, key))
        ELSE RZero

\* the loop over SCORING_MAP from entry i on, carrying
\* <<total_weighted_score, total_active_weight>>
RECURSIVE ScoreLoop(_, _, _, _)
ScoreLoop(rec, c, i, acc) ==
    IF i > Len(ScoringKeys) THEN acc
    ELSE LET key == ScoringKeys[i]
             weight == get_weight(c.weights, key)
         IN  IF ParamActive(rec, c, key)
             THEN ScoreLoop(rec, c, i + 1,
                            << RAdd(acc[1], RMul(ParamScore(rec, c, key), weight)),
                               RAdd(acc[2], weight) >>)
             ELSE ScoreLoop(rec, c, i + 1, acc)

\* step 6 with the no-criteria case scored as neutral
Normalise_NeutralWhenEmpty(total_weighted_score, total_active_weight) ==
    IF total_active_weight = RZero THEN RInt(50)
    ELSE RMul(RDiv(total_weighted_score, total_active_weight), RInt(100))

\* step 6: normalisation to 0..100
Normalise(total_weighted_score, total_active_weight) ==
    IF total_active_weight = RZero THEN RZero
    ELSE RMul(RDiv(total_weighted_score, total_active_weight), RInt(100))

\* BaseSelectionStrategy._calculate_total_score
_calculate_total_score(rec, c) ==
    LET totals == ScoreLoop(rec, c, 1, <<RZero, RZero>>)
    IN  Normalise(totals[1], totals[2])

-----------------------------------------------------------------------------
(* SearchCriteria construction: the model validators (mode='after') run in  *)
(* their order of definition; the first one that raises ends construction. *)
(* The date, bbox and circle fields take no part in scoring and are left   *)
(* out: every input carries valid dates and no bbox or circle.             *)

\* min > max, both given
Inverted(c, lo, hi) ==
    GetAttr(c, lo) # None /\ GetAttr(c, hi) # None
    /\ RLt(GetAttr(c, hi), GetAttr(c, lo))

\* the `if both given: min > max or min < 0 or max > upper` validators
CheckPair(c, lo, hi, upper) ==
    IF GetAttr(c, lo) # None /\ GetAttr(c, hi) # None
       /\ (\/ RLt(GetAttr(c, hi), GetAttr(c, lo))
           \/ RLt(GetAttr(c, lo), RZero)
           \/ RLt(RInt(upper), GetAttr(c, hi)))
    THEN "ValueError" ELSE "ok"

\* None > None and None > float raise TypeError
check_magnitudes(c) ==
    IF GetAttr(c, "min_magnitude") = None \/ GetAttr(c, "max_magnitude") = None
    THEN "TypeError"
    ELSE IF RLt(GetAttr(c, "max_magnitude"), GetAttr(c, "min_magnitude"))
    THEN "ValueError"
    ELSE IF RLt(GetAttr(c, "min_magnitude"), RZero)
            \/ RLt(RInt(10), GetAttr(c, "max_magnitude"))
    THEN "ValueError"
    ELSE "ok"

check_vs30(c) == CheckPair(c, "min_vs30", "max_vs30", 3000)

check_mechanisms(c) ==
    IF \E i \in 1..Len(c.mechanisms) : c.mechanisms[i] \notin MECHANISM_LABELS
    THEN "ValueError" ELSE "ok"

check_distances(c) ==
    LET distance_fields ==
            { <<"min_Repi", "max_Repi">>, <<"min_Rhyp", "max_Rhyp">>,
              <<"min_Rjb", "max_Rjb">>, <<"min_Rrup", "max_Rrup">> }
    IN  IF \E p \in distance_fields :
              \/ Inverted(c, p[1], p[2])
              \/ GetAttr(c, p[1]) # None /\ RLt(GetAttr(c, p[1]), RZero)
        THEN "ValueError" ELSE "ok"

check_depths(c) == CheckPair(c, "min_depth", "max_depth", 700)

check_pga_pgv_pgd(c) ==
    IF CheckPair(c, "min_pga", "max_pga", 10000) # "ok" THEN "ValueError"
    ELSE IF CheckPair(c, "min_pgv", "max_pgv", 1000) # "ok" THEN "ValueError"
    ELSE CheckPair(c, "min_pgd", "max_pgd", 1000)

\* SearchCriteria(**raw): "ok", or the exception the first failing validator raises
Validate(c) ==
    LET checks == << check_magnitudes(c), check_vs30(c), check_mechanisms(c),
                     check_distances(c), check_depths(c), check_pga_pgv_pgd(c) >>
        bad == {i \in 1..Len(checks) : checks[i] # "ok"}
    IN  IF bad = {} THEN "ok"
        ELSE checks[CHOOSE i \in bad : \A j \in bad : i <= j]

-----------------------------------------------------------------------------
(* Inputs of the SearchCriteria specification.                             *)

\* SearchCriteria with every optional field left at its default
BlankCriteria ==
    [ f          |-> [n \in FloatFields |-> None],
      mechanisms |-> <<>>,
      weights    |-> DefaultWeights ]

WithFields(c, upd) ==
    [c EXCEPT !.f = [n \in FloatFields |-> IF n \in DOMAIN upd THEN upd[n] ELSE c.f[n]]]

\* the pair of range fields a caller fills in to bound each scorable quantity
\* (the field declarations and their comments, Selection.py 48-82);
\* t90 and arias have a target field only
ParamRange(k) ==
    CASE k = "magnitude" -> <<"min_magnitude", "max_magnitude">>
      [] k = "rjb"       -> <<"min_Rjb", "max_Rjb">>
      [] k = "rrup"      -> <<"min_Rrup", "max_Rrup">>
      [] k = "repi"      -> <<"min_Repi", "max_Repi">>
      [] k = "vs30"      -> <<"min_vs30", "max_vs30">>
      [] k = "pga"       -> <<"min_pga", "max_pga">>
      [] k = "pgv"       -> <<"min_pgv", "max_pgv">>
      [] k = "pgd"       -> <<"min_pgd", "max_pgd">>
      [] k = "depth"     -> <<"min_depth", "max_depth">>
      [] OTHER           -> <<>>

OptVals == {None, RInt(-3), RInt(0), RInt(2), RInt(6), RInt(12)}

\* a magnitude range that passes check_magnitudes
BaseMagnitude == [min_magnitude |-> RInt(4), max_magnitude |-> RInt(8)]

\* constructor arguments: the mandatory magnitude range, plus a target and a
\* range for one scorable quantity k
RawInput(k, t, lo, hi) ==
    LET base == WithFields(BlankCriteria, BaseMagnitude)
        tgt  == ("target_" \o k) :> t
        rng  == IF ParamRange(k) = <<>> THEN tgt
                ELSE tgt @@ (ParamRange(k)[1] :> lo) @@ (ParamRange(k)[2] :> hi)
    IN  WithFields(base, rng)

RawInputs ==
    { RawInput(k, t, lo, hi) :
        k \in NumericKeys, t \in OptVals, lo \in OptVals, hi \in OptVals }

-----------------------------------------------------------------------------
(* Specification SpecCriteria: constructing a SearchCriteria and calling    *)
(* its helper methods.                                                     *)

\* the parts of the state a specification does not use stay at these values
IdleCriteria == criteria = None /\ ctorError = "none" /\ call = None
IdleScore    == record = None /\ SCORE = None
IdleSelect   ==
    /\ config = None /\ df_scored = <<>> /\ sorted_df = <<>>
    /\ selected_df = <<>> /\ selDone = FALSE
IdlePipeline ==
    /\ outcomes = None /\ validation = "ok" /\ strategy = None
    /\ requested = "" /\ mode = "none" /\ pc = 0 /\ context = None
    /\ current_result = None
    /\ pipeline_result = None /\ executed = <<>> /\ calls = None
    /\ tasks = None /\ task_results = None /\ completed = <<>>
    /\ history = <<>>
    /\ runs = None /\ lists = <<>>
    /\ cache = None /\ proxy_call = None

InitCriteria ==
    /\ criteria = None
    /\ ctorError = "none"
    /\ call = None
    /\ IdleScore
    /\ IdleSelect
    /\ IdlePipeline

\* SearchCriteria(**raw): one instance is constructed per behaviour
Construct ==
    /\ ctorError = "none"
    /\ \E raw \in RawInputs :
        /\ ctorError' = Validate(raw)
        /\ criteria' = IF Validate(raw) = "ok" THEN raw ELSE None
        /\ call' = None
        /\ UNCHANGED <<scoreVars, selVars, pipeVars>>

\* criteria.get_effective_target(key)
CallGetEffectiveTarget ==
    /\ criteria # None
    /\ \E key \in NumericKeys :
          call' = [op |-> "get_effective_target", key |-> key,
                   value |-> get_effective_target(criteria, key)]
    /\ UNCHANGED <<criteria, ctorError>>
    /\ UNCHANGED <<scoreVars, selVars, pipeVars>>

\* criteria.get_sigma(key)
CallGetSigma ==
    /\ criteria # None
    /\ \E key \in NumericKeys :
          call' = [op |-> "get_sigma", key |-> key,
                   value |-> get_sigma(criteria, key)]
    /\ UNCHANGED <<criteria, ctorError>>
    /\ UNCHANGED <<scoreVars, selVars, pipeVars>>

NextCriteria == Construct \/ CallGetEffectiveTarget \/ CallGetSigma

SpecCriteria == InitCriteria /\ [][NextCriteria]_vars

-----------------------------------------------------------------------------
(* Claims about SearchCriteria (checked under SpecCriteria).               *)

\* the target the specification derives for k: the explicit target, else the
\* midpoint of k's range, else the one bound given, else undefined
ClaimedTarget(c, k) ==
    LET explicit == c.f["target_" \o k]
        lo == IF ParamRange(k) = <<>> THEN None ELSE c.f[ParamRange(k)[1]]
        hi == IF ParamRange(k) = <<>> THEN None ELSE c.f[ParamRange(k)[2]]
    IN  IF explicit # None THEN explicit
        ELSE IF lo # None /\ hi # None THEN RDiv(RAdd(lo, hi), RInt(2))
        ELSE IF lo # None THEN lo
        ELSE hi

\* C6: for every scorable numeric parameter k, get_effective_target(k) is the
\* explicit target if given, else the midpoint of k's range if both bounds are
\* given, else the single bound given, else undefined.
C6_EffectiveTargetDerivation ==
    (call # None /\ call.op = "get_effective_target")
        => call.value = ClaimedTarget(criteria, call.key)

\* C7: for every numeric parameter whose effective target is defined,
\* get_sigma is strictly positive: (max-min)/strictness for a range with
\* max > min, 1.0 for a degenerate range, and a positive fallback otherwise.
C7_SigmaStrictlyPositive ==
    (call # None /\ call.op = "get_sigma"
       /\ ClaimedTarget(criteria, call.key) # None)
        => LET k  == call.key
               lo == IF ParamRange(k) = <<>> THEN None ELSE criteria.f[ParamRange(k)[1]]
               hi == IF ParamRange(k) = <<>> THEN None ELSE criteria.f[ParamRange(k)[2]]
           IN  /\ RLt(RZero, call.value)
               /\ (lo # None /\ hi # None /\ RLt(lo, hi))
                    => call.value = RDiv(RSub(hi, lo), RInt(SCORING_MAP[k].sigma_strictness))
               /\ (lo # None /\ hi # None /\ lo = hi) => call.value = ROne

\* the bounds of parameter k supplied in c
SuppliedBounds(c, k) ==
    IF ParamRange(k) = <<>> THEN {}
    ELSE {c.f[ParamRange(k)[1]], c.f[ParamRange(k)[2]]} \ {None}

\* C19: a SearchCriteria that passed validation has min <= max for every
\* parameter with both bounds given, and every supplied bound in its physical
\* domain (magnitude in [0, 10]; vs30, distances, depth and peak motions >= 0),
\* also when only one of the two bounds is supplied.
C19_ValidatedBoundsInDomain ==
    (ctorError = "ok" /\ criteria # None) =>
        \A k \in {"magnitude", "rjb", "rrup", "repi", "vs30", "pga", "pgv",
                  "pgd", "depth"} :
            /\ ~Inverted(criteria, ParamRange(k)[1], ParamRange(k)[2])
            /\ \A b \in SuppliedBounds(criteria, k) :
                  /\ RLe(RZero, b)
                  /\ k = "magnitude" => RLe(b, RInt(10))

\* C20: a SearchCriteria that omits min_magnitude and/or max_magnitude, every
\* other field being valid, passes validation: constructing it neither is
\* rejected nor raises.  (The only constructions that end in TypeError are
\* those of inputs with a magnitude bound left out and every other field
\* valid.)
C20_MagnitudeRangeOptional ==
    ctorError \in {"none", "ok", "ValueError"}

-----------------------------------------------------------------------------
(* Specification SpecScore: one record scored against one criteria.        *)

\* weights a caller passes for magnitude and for the second parameter
WeightVals == {RInt(-1), RZero, <<5, 1>>}
MechanismWeightVals == {RZero, <<3, 1>>}

\* settings of a second scored parameter: nothing, a target, a range, both
SecondParam ==
    { [n \in {} |-> None],
      ("target_vs30" :> RInt(2)),
      ("min_vs30" :> RInt(2)) @@ ("max_vs30" :> RInt(6)),
      ("target_vs30" :> RInt(2)) @@ ("min_vs30" :> RInt(2)) @@ ("max_vs30" :> RInt(6)),
      ("target_t90" :> RInt(2)),
      ("target_rjb" :> RInt(-3)),
      ("min_Rjb" :> RInt(2)) @@ ("max_Rjb" :> RInt(6)) }

MagnitudeParam ==
    { ("min_magnitude" :> RInt(6)) @@ ("max_magnitude" :> RInt(6)),
      ("min_magnitude" :> RInt(4)) @@ ("max_magnitude" :> RInt(8)),
      ("min_magnitude" :> RInt(4)) @@ ("max_magnitude" :> RInt(8))
          @@ ("target_magnitude" :> RInt(7)) }

MechanismParam ==
    { <<>>, <<"Reverse">>, <<"Normal", "Oblique">>, <<"Reverse", "Reverse/Oblique">> }

ScoreCriteria ==
    { [ WithFields(WithFields(BlankCriteria, m), p) EXCEPT
          !.mechanisms = mech,
          !.weights = [DefaultWeights EXCEPT !.magnitude = wm, !.mechanism = wc] ] :
        m \in MagnitudeParam, p \in SecondParam, mech \in MechanismParam,
        wm \in WeightVals, wc \in MechanismWeightVals }

\* rows of a scored table: a column may be absent, NaN, or hold a value
CellChoices(col) ==
    CASE col = "MAGNITUDE"    -> {<<"absent">>, None, RInt(6), RInt(7)}
      [] col = "VS30(m/s)"    -> {None, RInt(2), RInt(4)}
      [] col = "T90_avg(sec)" -> {<<"absent">>, RInt(2)}
      [] col = "RJB(km)"      -> {<<"absent">>, RInt(-3)}
      [] col = "MECHANISM"    -> {None, RZero, <<"">>, <<"Reverse">>, <<"Reverse/Oblique">>, <<"Oblique">>}

RecordColumns == {"MAGNITUDE", "VS30(m/s)", "T90_avg(sec)", "RJB(km)", "MECHANISM"}

\* the row holding exactly the columns that are not absent
MakeRecord(cells) ==
    [col \in {x \in RecordColumns : cells[x] # <<"absent">>} |-> cells[col]]

Records ==
    { MakeRecord(cells) :
        cells \in { g \in [RecordColumns -> UNION {CellChoices(x) : x \in RecordColumns}] :
                      \A x \in RecordColumns : g[x] \in CellChoices(x) } }

InitScore ==
    /\ criteria \in {c \in ScoreCriteria : Validate(c) = "ok"}
    /\ ctorError = "ok"
    /\ call = None
    /\ record \in Records
    /\ SCORE = None
    /\ IdleSelect
    /\ IdlePipeline

\* scored_df['SCORE'] = _calculate_total_score(row, criteria), for one row
CalculateTotalScore ==
    /\ SCORE = None
    /\ SCORE' = _calculate_total_score(record, criteria)
    /\ UNCHANGED <<record, criteria, ctorError, call>>
    /\ UNCHANGED <<selVars, pipeVars>>

NextScore == CalculateTotalScore

SpecScore == InitScore /\ [][NextScore]_vars

-----------------------------------------------------------------------------
(* Claims about the scoring engine (checked under SpecScore).              *)

ActiveKeys(rec, c) ==
    {ScoringKeys[i] : i \in {j \in 1..Len(ScoringKeys) : ParamActive(rec, c, ScoringKeys[j])}}

\* the record's value of parameter k equals the effective target exactly
\* (numeric) or is one of the accepted labels (categorical)
ExactMatch(rec, c, k) ==
    LET value == rec[SCORING_MAP[k].column]
    IN  IF k = "mechanism"
        THEN IsText(value) /\ \E i \in 1..Len(c.mechanisms) : c.mechanisms[i] = value[1]
        ELSE value = get_effective_target(c, k)

\* C5: for every record and every criteria (any mix of targets, ranges,
\* weights of any sign, present or missing fields) 0 <= SCORE <= 100.
C5_ScoreInRange ==
    SCORE # None => (RLe(RZero, SCORE) /\ RLe(SCORE, RInt(100)))

\* C5 witness: a record scored with a negative weight in the criteria and two
\* parameters active, the score strictly inside the range
C5_Witness ==
    /\ SCORE # None
    /\ \E k \in DOMAIN criteria.weights : RLt(criteria.weights[k], RZero)
    /\ Cardinality(ActiveKeys(record, criteria)) >= 2
    /\ RLt(RZero, SCORE) /\ RLt(SCORE, RInt(100))

\* C10: if at least one parameter is active and every active parameter's
\* value exactly equals its effective target (numeric) or exactly matches an
\* accepted label (categorical), SCORE is exactly 100.
C10_ExactMatchScores100 ==
    (/\ SCORE # None
     /\ ActiveKeys(record, criteria) # {}
     /\ \A k \in ActiveKeys(record, criteria) : ExactMatch(record, criteria, k))
        => SCORE = RInt(100)

\* C10 witness: a numeric and the categorical parameter active, both matched
\* exactly, scored
C10_Witness ==
    /\ SCORE = RInt(100)
    /\ "mechanism" \in ActiveKeys(record, criteria)
    /\ "magnitude" \in ActiveKeys(record, criteria)
    /\ \A k \in ActiveKeys(record, criteria) : ExactMatch(record, criteria, k)

\* record rec with column col holding v
SetField(rec, col, v) ==
    [x \in (DOMAIN rec) \cup {col} |-> IF x = col THEN v ELSE rec[x]]

\* criteria c with the target of parameter k undefined
WithoutTarget(c, k) ==
    IF k = "mechanism" THEN [c EXCEPT !.mechanisms = <<>>]
    ELSE WithFields(c, [n \in {"target_" \o k} \cup
                               (IF ParamRange(k) = <<>> THEN {}
                                ELSE {ParamRange(k)[1], ParamRange(k)[2]}) |-> None])

\* C11: a parameter whose weight is 0 or negative has no influence on the
\* score: the score is the same whatever value the record holds for it, and
\* equals the score computed with that parameter's target undefined.
C11_NonPositiveWeightNoInfluence ==
    SCORE # None =>
        \A k \in {"magnitude", "mechanism"} :
            RLe(get_weight(criteria.weights, k), RZero) =>
                /\ SCORE = _calculate_total_score(record, WithoutTarget(criteria, k))
                /\ \A v \in CellChoices(SCORING_MAP[k].column) \ {<<"absent">>} :
                      SCORE = _calculate_total_score(
                                  SetField(record, SCORING_MAP[k].column, v), criteria)

\* C11 witness: magnitude has a negative weight, a defined target and a value
\* in the record away from that target, and another parameter is active
C11_Witness ==
    /\ SCORE # None
    /\ RLt(get_weight(criteria.weights, "magnitude"), RZero)
    /\ get_effective_target(criteria, "magnitude") # None
    /\ "MAGNITUDE" \in DOMAIN record
    /\ record["MAGNITUDE"] # None
    /\ record["MAGNITUDE"] # get_effective_target(criteria, "magnitude")
    /\ ActiveKeys(record, criteria) # {}
    /\ RLt(RZero, SCORE)

\* the parameters of the registry, as a set
KeySet == {ScoringKeys[i] : i \in 1..Len(ScoringKeys)}

\* parameter k contributes nothing for (rec, c): its effective target is
\* undefined, the record's column is missing or null, or its weight is not
\* positive
Inactive(rec, c, k) ==
    \/ TargetOf(c, k) = None
    \/ SCORING_MAP[k].column \notin DOMAIN rec
    \/ IsNa(rec[SCORING_MAP[k].column])
    \/ RLe(get_weight(c.weights, k), RZero)

\* C12: when no registry parameter is active for a record (each one has an
\* undefined target, a missing or null field, or a weight of zero or less),
\* the record's SCORE is 0.
C12_NoActiveParameterScoresZero ==
    (SCORE # None /\ \A k \in KeySet : Inactive(record, criteria, k))
        => SCORE = RZero

C12_Witness ==
    /\ SCORE = RZero
    /\ \A k \in KeySet : Inactive(record, criteria, k)
    /\ \E k \in KeySet :
          /\ TargetOf(criteria, k) # None
          /\ RLt(RZero, get_weight(criteria.weights, k))

\* the similarity the specification gives a record label against the
\* accepted labels
ClaimedSimilarity(label, accepted) ==
    IF label = "" \/ accepted = <<>> THEN RZero
    ELSE IF \E i \in 1..Len(accepted) : accepted[i] = label THEN ROne
    ELSE IF \E i \in 1..Len(accepted) : Substring(accepted[i], label) THEN <<7, 10>>
    ELSE RZero

\* C28: the categorical similarity of a record label against the accepted
\* labels is 1.0 if an accepted label equals it, otherwise 0.7 if an accepted
\* label is a substring of it, otherwise 0.0; an exact match takes precedence
\* over a partial match with another label, and an empty label or an empty
\* accepted list gives 0.0.  A record scored on the mechanism alone gets 100
\* times that similarity.
C28_CategoricalSimilarity ==
    (SCORE # None /\ "MECHANISM" \in DOMAIN record /\ IsText(record["MECHANISM"])) =>
        LET label == record["MECHANISM"][1]
            sim   == ClaimedSimilarity(label, criteria.mechanisms)
        IN  /\ _categorical_score(record["MECHANISM"], criteria.mechanisms) = sim
            /\ _categorical_score(record["MECHANISM"], <<>>) = RZero
            /\ ActiveKeys(record, criteria) = {"mechanism"}
                  => SCORE = RMul(sim, RInt(100))

\* C28 witness: a record scored on the mechanism alone whose compound label
\* contains the first accepted label and equals the second
C28_Witness ==
    /\ SCORE = RInt(100)
    /\ ActiveKeys(record, criteria) = {"mechanism"}
    /\ record["MECHANISM"] = <<"Reverse/Oblique">>
    /\ criteria.mechanisms = <<"Reverse", "Reverse/Oblique">>

-----------------------------------------------------------------------------
(* Selection.py: the selection engine of BaseSelectionStrategy.            *)
(* A row of the scored table is a function from its columns to values;    *)
(* "idx" is the row's pandas index label (its position in the input).     *)

\* record.get(col, '')
record_get(row, col) == IF col \in DOMAIN row THEN row[col] ELSE ""

\* df_scored[df_scored['SCORE'] >= min_score]
FilterMinScore(df, min_score) ==
    SelectSeq(df, LAMBDA r : RLe(min_score, r.SCORE))

Descending(seq) ==
    \A i \in 1..(Len(seq) - 1) : RLe(seq[i + 1].SCORE, seq[i].SCORE)

Ascending(seq) ==
    \A i \in 1..(Len(seq) - 1) : RLe(seq[i].SCORE, seq[i + 1].SCORE)

\* every reordering of the rows of df
Reorderings(df) ==
    LET n == Len(df)
        perms == {p \in [1..n -> 1..n] : \A i, j \in 1..n : p[i] = p[j] => i = j}
    IN  {[i \in 1..n |-> df[p[i]]] : p \in perms}

\* mutant: the table is sorted by ascending SCORE
sort_values_Ascending(df) == {o \in Reorderings(df) : Ascending(o)}

\* filtered_df.sort_values('SCORE', ascending=False): the default sort kind
\* (quicksort) is not stable, so rows of equal SCORE may come in any order
sort_values(df) == {o \in Reorderings(df) : Descending(o)}

\* station_counts.get(station, 0) / event_counts.get(event, 0): the number of
\* already selected records with this value in column col
RunningCount(selected_records, col, v) ==
    Cardinality({i \in 1..Len(selected_records) :
                    record_get(selected_records[i], col) = v})

\* mutant: a cap is only reached once it is exceeded
CapReached_OffByOne(count, cap) == count > cap

\* `counts.get(x, 0) >= self.config.max_per_x`
CapReached(count, cap) == count >= cap

\* the loop over sorted_df.iterrows() from row i on
RECURSIVE SelectionWalk(_, _, _, _)
SelectionWalk(sorted, i, selected_records, cfg) ==
    IF i > Len(sorted) THEN selected_records
    ELSE IF Len(selected_records) >= cfg.num_records THEN selected_records
    ELSE LET rec     == sorted[i]
             station == record_get(rec, "STATION")
             event   == record_get(rec, "EVENT")
         IN  IF \/ CapReached(RunningCount(selected_records, "STATION", station),
                              cfg.max_per_station)
                \/ CapReached(RunningCount(selected_records, "EVENT", event),
                              cfg.max_per_event)
             THEN SelectionWalk(sorted, i + 1, selected_records, cfg)
             ELSE SelectionWalk(sorted, i + 1, Append(selected_records, rec), cfg)

-----------------------------------------------------------------------------
(* Specification SpecSelect: _apply_selection_rules on one scored table.   *)

MaxRows == 3

Stations  == {"ST1", "ST2"}
Events    == {"EV1", "EV2"}
ScoreVals == {RInt(40), RInt(60), RInt(80)}

\* SelectionConfig values
Configs ==
    [num_records : {0, 1, 2}, max_per_station : {1, 2}, max_per_event : {1, 2},
     min_score : {RInt(50)}]
    \cup {[num_records |-> 2, max_per_station |-> 1, max_per_event |-> 1,
           min_score |-> RInt(101)]}

\* scored tables of n rows, with or without the STATION and EVENT columns
ScoredTables(n) ==
    LET full == [STATION : Stations, EVENT : Events, SCORE : ScoreVals]
        bare == [SCORE : ScoreVals]
    IN  { [i \in 1..n |-> [idx |-> i, STATION |-> f[i].STATION,
                           EVENT |-> f[i].EVENT, SCORE |-> f[i].SCORE]] :
            f \in [1..n -> full] }
        \cup { [i \in 1..n |-> [idx |-> i, SCORE |-> f[i].SCORE]] :
                 f \in [1..n -> bare] }

InitSelect ==
    /\ IdleCriteria
    /\ IdleScore
    /\ IdlePipeline
    /\ config \in Configs
    /\ \E n \in 0..MaxRows : df_scored \in ScoredTables(n)
    /\ sorted_df = <<>>
    /\ selected_df = <<>>
    /\ selDone = FALSE

\* BaseSelectionStrategy._apply_selection_rules(df_scored)
ApplySelectionRules ==
    /\ ~selDone
    /\ LET filtered_df == FilterMinScore(df_scored, config.min_score)
       IN  IF filtered_df = <<>>
           THEN sorted_df' = <<>> /\ selected_df' = <<>>
           ELSE \E o \in sort_values(filtered_df) :
                   /\ sorted_df' = o
                   /\ selected_df' = SelectionWalk(o, 1, <<>>, config)
    /\ selDone' = TRUE
    /\ UNCHANGED <<config, df_scored>>
    /\ UNCHANGED <<critVars, scoreVars, pipeVars>>

NextSelect == ApplySelectionRules

SpecSelect == InitSelect /\ [][NextSelect]_vars

-----------------------------------------------------------------------------
(* Claims about the selection engine (checked under SpecSelect).           *)

RowsWith(df, col, v) == {i \in 1..Len(df) : record_get(df[i], col) = v}

\* C1: the table returned by _apply_selection_rules has at most num_records
\* rows, at most max_per_station rows sharing a STATION, at most max_per_event
\* rows sharing an EVENT, and every row has SCORE >= min_score.
C1_SelectionLimits ==
    selDone =>
        /\ Len(selected_df) <= config.num_records
        /\ \A i \in 1..Len(selected_df) :
              /\ Cardinality(RowsWith(selected_df, "STATION",
                                      record_get(selected_df[i], "STATION")))
                    <= config.max_per_station
              /\ Cardinality(RowsWith(selected_df, "EVENT",
                                      record_get(selected_df[i], "EVENT")))
                    <= config.max_per_event
              /\ RLe(config.min_score, selected_df[i].SCORE)

\* C1 witness: two records selected, the shortlist full, and a qualifying
\* record with a higher score than the last selected one left out by a cap
C1_Witness ==
    /\ selDone
    /\ Len(selected_df) = 2 /\ config.num_records = 2
    /\ \E i \in 1..Len(sorted_df) :
          /\ \A j \in 1..Len(selected_df) : selected_df[j].idx # sorted_df[i].idx
          /\ RLt(selected_df[2].SCORE, sorted_df[i].SCORE)

\* row r is one of the rows of the selected table
InSelected(r) == \E s \in 1..Len(selected_df) : selected_df[s].idx = r.idx

\* the selected rows walked before position i of sorted_df, and those of
\* them holding the value of row i in column col
AcceptedBefore(i) == {j \in 1..(i - 1) : InSelected(sorted_df[j])}
AcceptedBeforeWith(i, col) ==
    {j \in AcceptedBefore(i) :
        record_get(sorted_df[j], col) = record_get(sorted_df[i], col)}

\* C17: the selected table is exactly the greedy walk over the records with
\* SCORE >= min_score in score-descending order: a record is selected if and
\* only if, when it is reached, fewer than num_records records are accepted
\* and the accepted records with its STATION and with its EVENT are fewer
\* than max_per_station and max_per_event; a skipped record is never taken
\* later; and if fewer than num_records were selected, every unselected
\* qualifying record has its station or its event at its cap in the final
\* selection.
C17_SelectionIsGreedyWalk ==
    selDone =>
        /\ Len(sorted_df) = Len(FilterMinScore(df_scored, config.min_score))
        /\ \A i \in 1..Len(df_scored) :
              RLe(config.min_score, df_scored[i].SCORE)
                 <=> \E j \in 1..Len(sorted_df) : sorted_df[j] = df_scored[i]
        /\ \A i \in 1..Len(sorted_df) : \A j \in 1..Len(sorted_df) :
              i < j => RLe(sorted_df[j].SCORE, sorted_df[i].SCORE)
        /\ selected_df = SelectSeq(sorted_df, InSelected)
        /\ \A i \in 1..Len(sorted_df) :
              InSelected(sorted_df[i])
                 <=> /\ Cardinality(AcceptedBefore(i)) < config.num_records
                     /\ Cardinality(AcceptedBeforeWith(i, "STATION"))
                           < config.max_per_station
                     /\ Cardinality(AcceptedBeforeWith(i, "EVENT"))
                           < config.max_per_event
        /\ Len(selected_df) < config.num_records =>
              \A i \in 1..Len(sorted_df) :
                  ~InSelected(sorted_df[i]) =>
                      \/ Cardinality(RowsWith(selected_df, "STATION",
                                              record_get(sorted_df[i], "STATION")))
                            >= config.max_per_station
                      \/ Cardinality(RowsWith(selected_df, "EVENT",
                                              record_get(sorted_df[i], "EVENT")))
                            >= config.max_per_event

\* C17 witness: a qualifying record was skipped and a record walked after it
\* was selected
C17_Witness ==
    /\ selDone
    /\ \E i \in 1..Len(sorted_df) : \E j \in 1..Len(sorted_df) :
          /\ i < j
          /\ ~InSelected(sorted_df[i])
          /\ InSelected(sorted_df[j])

\* C18: records of equal SCORE are walked in their original order: of two
\* qualifying records with the same SCORE the one that came first in the
\* scored table is walked first and, if both are selected, comes first in the
\* selected table.
C18_TiesKeepOriginalOrder ==
    selDone =>
        /\ \A i \in 1..Len(sorted_df) : \A j \in 1..Len(sorted_df) :
              (i < j /\ sorted_df[i].SCORE = sorted_df[j].SCORE)
                  => sorted_df[i].idx < sorted_df[j].idx
        /\ \A i \in 1..Len(selected_df) : \A j \in 1..Len(selected_df) :
              (i < j /\ selected_df[i].SCORE = selected_df[j].SCORE)
                  => selected_df[i].idx < selected_df[j].idx

\* the selection engine alone: with no record at or above min_score the
\* table returned is pd.DataFrame(), and the call returns
EmptySelectionBelowMinScore ==
    (selDone /\ FilterMinScore(df_scored, config.min_score) = <<>>)
        => selected_df = <<>>

\* C9: the rows of the selected table are in non-increasing SCORE order.
C9_SelectedSortedDescending ==
    selDone =>
        \A i \in 1..Len(selected_df) : \A j \in 1..Len(selected_df) :
            i < j => ~RLt(selected_df[i].SCORE, selected_df[j].SCORE)

\* C9 witness: two selected records of different scores
C9_Witness ==
    /\ selDone
    /\ Len(selected_df) >= 2
    /\ RLt(selected_df[2].SCORE, selected_df[1].SCORE)

-----------------------------------------------------------------------------
(* Pipeline.py: tables.  A pandas DataFrame is a record of its set of      *)
(* columns and its sequence of rows; a row is a function from the columns  *)
(* to cells.                                                               *)

\* pd.DataFrame()
EmptyFrame == [columns |-> {}, rows |-> <<>>]

\* the value None in a field of type Optional[pd.DataFrame]
NoFrame == [none |-> TRUE]
IsNoFrame(df) == "none" \in DOMAIN df

\* df.empty
empty(df) == df.rows = <<>> \/ df.columns = {}

\* mutant: no column is dropped
dropna_KeepAll(df) == df

\* df.dropna(axis=1, how='all')
dropna(df) ==
    LET keep == {c \in df.columns : \E i \in 1..Len(df.rows) : ~IsNa(df.rows[i][c])}
    IN  [columns |-> keep,
         rows    |-> [i \in 1..Len(df.rows) |-> [c \in keep |-> df.rows[i][c]]]]

\* the rows of dfs[k], dfs[k+1], ... one after another
RECURSIVE ChainRows(_, _)
ChainRows(dfs, k) ==
    IF k > Len(dfs) THEN <<>> ELSE dfs[k].rows \o ChainRows(dfs, k + 1)

\* mutant: the rows come out last table first
concat_LastFirst(dfs) ==
    LET all_columns == UNION {dfs[k].columns : k \in 1..Len(dfs)}
        all_rows    == ChainRows(dfs, 1)
        n           == Len(all_rows)
    IN  [columns |-> all_columns,
         rows    |-> [i \in 1..n |->
                        [c \in all_columns |->
                            IF c \in DOMAIN all_rows[n + 1 - i]
                            THEN all_rows[n + 1 - i][c] ELSE None]]]

\* pd.concat(dfs, ignore_index=True): a cell of a column the row's table
\* did not have is NaN
concat(dfs) ==
    LET all_columns == UNION {dfs[k].columns : k \in 1..Len(dfs)}
        all_rows    == ChainRows(dfs, 1)
    IN  [columns |-> all_columns,
         rows    |-> [i \in 1..Len(all_rows) |->
                        [c \in all_columns |->
                            IF c \in DOMAIN all_rows[i] THEN all_rows[i][c] ELSE None]]]

\* df[cols] = df[cols].fillna(value)
fillna(df, cols, value) ==
    [df EXCEPT !.rows =
        [i \in 1..Len(df.rows) |->
            [c \in df.columns |->
                IF c \in cols /\ IsNa(df.rows[i][c]) THEN value ELSE df.rows[i][c]]]]

\* df.select_dtypes(include=['object']).columns: the columns holding text
select_dtypes_object(df) ==
    {c \in df.columns : \E i \in 1..Len(df.rows) : IsText(df.rows[i][c])}

-----------------------------------------------------------------------------
(* Results and errors.                                                     *)

Error(type, message) == [type |-> type, message |-> message]
NoError == Error("none", "")

\* ProviderError(provider_name, original_error)
ProviderError(provider_name, original_error) ==
    [type |-> "ProviderError", provider_name |-> provider_name,
     message |-> original_error]

\* str(error) of a ProviderError
ErrorStr(e) == e.provider_name \o ": " \o e.message

\* Result.ok(value) / Result.fail(error) as returned by a provider
ProviderOk(table)  == [success |-> TRUE, value |-> table, error |-> ProviderError("", "")]
ProviderFail(error) == [success |-> FALSE, value |-> NoFrame, error |-> error]
NoResult == [success |-> FALSE, value |-> NoFrame, error |-> ProviderError("", "pending")]

\* Result.ok(value) / Result.fail(error) as returned by a stage; holds names
\* the type of the value
Ok(holds)   == [success |-> TRUE, holds |-> holds, error |-> NoError]
Fail(error) == [success |-> FALSE, holds |-> "None", error |-> error]

\* what a call of a stage function does: the context as the call leaves it,
\* and the exception it raises (NoError if it returns)
Returns(ctx)      == [context |-> ctx, raised |-> NoError]
Raises(ctx, error) == [context |-> ctx, raised |-> error]

\* @result_decorator / @async_result_decorator: a raised exception becomes a
\* failure Result, a returned value a success Result
result_decorator(out, holds) ==
    IF out.raised = NoError THEN Ok(holds) ELSE Fail(out.raised)

-----------------------------------------------------------------------------
(* The run's inputs: providers, their outcomes, validation, strategy.      *)

NumProviders == 2
MaxRuns == 2

ProviderNames == <<"AFAD", "PEER", "FDSN", "USGS">>

\* api.providers
providers == [i \in 1..NumProviders |-> ProviderNames[i]]

\* provider.get_name()
get_name(i) == providers[i]

\* tables a provider returns: no rows; one record with an all-null column;
\* two records with a null cell; one record of nulls only; one record whose
\* MAGNITUDE is null
ProviderTables ==
    { EmptyFrame,
      [columns |-> {"MAGNITUDE", "VS30(m/s)", "MECHANISM"},
       rows |-> << [c \in {"MAGNITUDE", "VS30(m/s)", "MECHANISM"} |->
                      CASE c = "MAGNITUDE" -> RInt(6)
                        [] c = "VS30(m/s)" -> None
                        [] c = "MECHANISM" -> <<"Reverse">>] >>],
      [columns |-> {"MAGNITUDE", "MECHANISM"},
       rows |-> << [c \in {"MAGNITUDE", "MECHANISM"} |->
                      IF c = "MAGNITUDE" THEN RInt(7) ELSE None],
                   [c \in {"MAGNITUDE", "MECHANISM"} |->
                      IF c = "MAGNITUDE" THEN RInt(5) ELSE <<"Normal">>] >>],
      [columns |-> {"MAGNITUDE"},
       rows |-> << [c \in {"MAGNITUDE"} |-> None] >>],
      [columns |-> {"MAGNITUDE", "MECHANISM"},
       rows |-> << [c \in {"MAGNITUDE", "MECHANISM"} |->
                      IF c = "MAGNITUDE" THEN None ELSE <<"Oblique">>] >>] }

\* what a provider does when asked: "ok" returns Result.ok(table), "fail" a
\* failure Result, "timeout" a failure Result after its timeout expired,
\* "raise_map" raises in map_criteria, "raise_fetch" raises in fetch_data_*
Outcomes ==
    {[kind |-> "ok", table |-> t] : t \in ProviderTables}
    \cup {[kind |-> k, table |-> EmptyFrame] :
            k \in {"fail", "timeout", "raise_map", "raise_fetch"}}

\* which of search_criteria.validate() and target_params.validate() raises
Validations == {"ok", "search_criteria", "target_params"}

\* strategies: the repository's (BaseSelectionStrategy subclasses), and other
\* implementations of ISelectionStrategy that return both tables, an empty
\* selection, None, or raise
Strategies ==
    {[kind |-> "TBDY", returns |-> "scored"]}
    \cup {[kind |-> "Stub", returns |-> r] : r \in {"all", "empty", "none", "raise"}}

\* strategy.get_name()
strategy_name(s) == IF s.kind = "TBDY" THEN "TBDY_2018_Gaussian" ELSE "Stub"

\* EarthquakeAPI.__init__: self.strategies = {s.get_name(): s for s in
\* strategies}, the API being built with the one strategy of the behaviour
strategies == {strategy_name(strategy)}

\* the names a caller may pass to run_sync / run_async
StrategyNames == {"TBDY_2018_Gaussian", "Stub"}

\* the SelectionConfig of the repository strategy
RunConfig ==
    [num_records |-> 2, max_per_station |-> 3, max_per_event |-> 3,
     min_score |-> RInt(50)]

\* context.search_criteria: a valid SearchCriteria
search_criteria ==
    WithFields(BlankCriteria,
               ("min_magnitude" :> RInt(4)) @@ ("max_magnitude" :> RInt(8)))

\* context.target_params.__dict__: a dict, not a SearchCriteria
target_params_dict == [dict |-> "TargetParameters"]

\* whether the object has the attributes of a SearchCriteria
IsSearchCriteria(c) == {"f", "mechanisms", "weights"} \subseteq DOMAIN c

\* PipelineContext(providers, strategy, search_criteria, target_params)
NewContext ==
    [data |-> None, combined_df |-> NoFrame, selected_df |-> NoFrame,
     scored_df |-> NoFrame, failed_providers |-> <<>>, logs |-> <<>>]

\* no PipelineContext exists
NoContext == [none |-> TRUE]

-----------------------------------------------------------------------------
(* Pipeline.py: the stage functions of EarthquakePipeline.                  *)

\* provider.map_criteria(...) / provider.fetch_data_*(...) raising
CallRaises(i) == outcomes[i].kind \in {"raise_map", "raise_fetch"}
ExceptionText(i) ==
    IF outcomes[i].kind = "raise_map" THEN "map_criteria raised"
    ELSE "fetch_data raised"

\* the Result a provider's fetch_data_sync / fetch_data_async returns; the
\* providers fail with ProviderError(self.name, ...)
fetch_data(i) ==
    IF outcomes[i].kind = "ok" THEN ProviderOk(outcomes[i].table)
    ELSE ProviderFail(ProviderError(get_name(i), outcomes[i].kind))

\* context.search_criteria.validate(); context.target_params.validate()
_validate_inputs(ctx) ==
    IF validation = "search_criteria"
    THEN Raises(ctx, Error("ValidationError", "search_criteria"))
    ELSE IF validation = "target_params"
    THEN Raises(ctx, Error("ValidationError", "target_params"))
    ELSE Returns(ctx)

\* mutant: the stage needs every provider to have delivered
NoData_AnyMissing(results) == Len(results) < NumProviders

\* `if not results:` / `if not successful_data:`
NoData(results) == results = <<>>

\* _fetch_data_sync: the loop over context.providers from provider i on;
\* acc carries results, context.failed_providers and context.logs
RECURSIVE FetchLoopSync(_, _)
FetchLoopSync(i, acc) ==
    IF i > NumProviders THEN acc
    ELSE IF CallRaises(i)
    THEN FetchLoopSync(i + 1,
            [acc EXCEPT !.failed_providers = Append(@, get_name(i)),
                        !.logs = Append(@, "[ERROR] " \o get_name(i) \o ": "
                                            \o ExceptionText(i))])
    ELSE LET result == fetch_data(i)
         IN  IF result.success
             THEN FetchLoopSync(i + 1,
                    [acc EXCEPT !.results = Append(@, result.value),
                                !.logs = Append(@, "[OK] " \o get_name(i) \o " success")])
             ELSE FetchLoopSync(i + 1,
                    [acc EXCEPT !.failed_providers = Append(@, get_name(i)),
                                !.logs = Append(@, "[ERROR] " \o get_name(i) \o ": "
                                                    \o ErrorStr(result.error))])

\* EarthquakePipeline._fetch_data_sync
_fetch_data_sync(ctx) ==
    LET acc  == FetchLoopSync(1, [results |-> <<>>,
                                  failed_providers |-> ctx.failed_providers,
                                  logs |-> ctx.logs])
        ctx1 == [ctx EXCEPT !.failed_providers = acc.failed_providers,
                            !.logs = acc.logs]
    IN  IF NoData(acc.results)
        THEN Raises(ctx1, Error("NoDataError", "No data received from any provider"))
        ELSE Returns([ctx1 EXCEPT !.data = acc.results])

\* _fetch_data_async.fetch_single_provider
fetch_single_provider(i) ==
    IF CallRaises(i)
    THEN ProviderFail(ProviderError(get_name(i), ExceptionText(i)))
    ELSE fetch_data(i)

\* mutant: the results come in the order the tasks completed
gather_CompletionOrder(results, order) ==
    [k \in 1..Len(order) |-> results[order[k]]]

\* asyncio.gather(*tasks): the results in the order of the tasks
gather(results, order) == [k \in 1..NumProviders |-> results[k]]

\* _fetch_data_async: the loop over results from result k on; acc carries
\* successful_data, context.failed_providers and context.logs
RECURSIVE ProcessResults(_, _, _)
ProcessResults(results, k, acc) ==
    IF k > Len(results) THEN acc
    ELSE IF results[k].success
    THEN LET successful_data == Append(acc.successful_data, results[k].value)
         IN  ProcessResults(results, k + 1,
                [acc EXCEPT !.successful_data = successful_data,
                            !.logs = Append(@, "[OK] " \o providers[Len(successful_data)]
                                                \o " success")])
    ELSE ProcessResults(results, k + 1,
            [acc EXCEPT !.failed_providers = Append(@, results[k].error.provider_name),
                        !.logs = Append(@, "[ERROR] " \o ErrorStr(results[k].error))])

\* EarthquakePipeline._fetch_data_async, from `# Process results` on
_fetch_data_async(ctx, results) ==
    LET acc  == ProcessResults(results, 1, [successful_data |-> <<>>,
                                            failed_providers |-> ctx.failed_providers,
                                            logs |-> ctx.logs])
        ctx1 == [ctx EXCEPT !.failed_providers = acc.failed_providers,
                            !.logs = acc.logs]
    IN  IF NoData(acc.successful_data)
        THEN Raises(ctx1, Error("NoDataError", "No data received from any provider"))
        ELSE Returns([ctx1 EXCEPT !.data = acc.successful_data])

\* _combine_data without the two clean-up steps: the usable tables are
\* concatenated as they came
_combine_data_ConcatOnly(ctx) ==
    IF ctx.data = None
    THEN Raises(ctx, Error("NoDataError", "No data to combine"))
    ELSE LET valid_dfs == SelectSeq(ctx.data,
                             LAMBDA df : ~empty(df) /\ dropna(df).columns # {})
             combined  == concat(valid_dfs)
         IN  IF valid_dfs = <<>>
             THEN Raises(ctx, Error("NoDataError", "No valid dataframes to combine"))
             ELSE Returns([ctx EXCEPT
                            !.combined_df = combined,
                            !.logs = Append(@, "Combined " \o ToString(Len(valid_dfs))
                                               \o " datasets, total "
                                               \o ToString(Len(combined.rows))
                                               \o " records")])

\* EarthquakePipeline._combine_data
_combine_data(ctx) ==
    IF ctx.data = None
    THEN Raises(ctx, Error("NoDataError", "No data to combine"))
    ELSE LET usable    == SelectSeq(ctx.data,
                             LAMBDA df : ~empty(df) /\ dropna(df).columns # {})
             valid_dfs == [k \in 1..Len(usable) |-> dropna(usable[k])]
             filled    == fillna(dropna(concat(valid_dfs)),
                                 dropna(concat(valid_dfs)).columns, RZero)
             combined  == fillna(filled, select_dtypes_object(filled), <<"">>)
         IN  IF valid_dfs = <<>>
             THEN Raises(ctx, Error("NoDataError", "No valid dataframes to combine"))
             ELSE Returns([ctx EXCEPT
                            !.combined_df = combined,
                            !.logs = Append(@, "Combined " \o ToString(Len(valid_dfs))
                                               \o " datasets, total "
                                               \o ToString(Len(combined.rows))
                                               \o " records")])

\* df with a SCORE column holding scores[i] for row i
WithScore(df, scores) ==
    [columns |-> df.columns \cup {"SCORE"},
     rows    |-> [i \in 1..Len(df.rows) |-> df.rows[i] @@ ("SCORE" :> scores[i])]]

\* BaseSelectionStrategy._apply_selection_rules: the tables it may return
_apply_selection_rules(scored, cfg) ==
    LET filtered_df == FilterMinScore(scored.rows, cfg.min_score)
    IN  IF filtered_df = <<>> THEN {EmptyFrame}
        ELSE {[columns |-> scored.columns, rows |-> SelectionWalk(o, 1, <<>>, cfg)] :
                 o \in sort_values(filtered_df)}

\* what a call of strategy.select_and_score(df, crit) does
Selected(selected, scored) ==
    [raised |-> NoError, selected_df |-> selected, scored_df |-> scored]
SelectRaises(error) ==
    [raised |-> error, selected_df |-> NoFrame, scored_df |-> NoFrame]

\* BaseSelectionStrategy.select_and_score: reading criteria.mechanisms or
\* criteria.get_effective_target of a dict raises AttributeError
select_and_score(df, crit) ==
    IF empty(df) THEN {Selected(EmptyFrame, EmptyFrame)}
    ELSE IF ~IsSearchCriteria(crit)
    THEN {SelectRaises(Error("AttributeError", "'dict' object has no attribute"))}
    ELSE LET scores    == [i \in 1..Len(df.rows) |->
                                _calculate_total_score(df.rows[i], crit)]
             scored_df == WithScore(df, scores)
         IN  {Selected(s, scored_df) : s \in _apply_selection_rules(scored_df, RunConfig)}

\* select_and_score of another implementation of ISelectionStrategy
stub_select_and_score(s, df) ==
    LET scored_df == WithScore(df, [i \in 1..Len(df.rows) |-> RInt(50)])
    IN  CASE s.returns = "all"   -> {Selected(scored_df, scored_df)}
          [] s.returns = "empty" -> {Selected(EmptyFrame, scored_df)}
          [] s.returns = "none"  -> {Selected(NoFrame, NoFrame)}
          [] OTHER               -> {SelectRaises(Error("RuntimeError", "stub"))}

\* EarthquakePipeline._apply_strategy: the outcomes the call may have
_apply_strategy(ctx) ==
    IF IsNoFrame(ctx.combined_df) \/ empty(ctx.combined_df)
    THEN {Raises(ctx, Error("NoDataError", "No data to apply strategy on"))}
    ELSE { IF o.raised # NoError
           THEN Raises(ctx, Error("StrategyError",
                                  "Strategy application failed: " \o o.raised.type))
           ELSE Returns([ctx EXCEPT
                           !.selected_df = o.selected_df,
                           !.scored_df = o.scored_df,
                           !.logs = Append(@, "Strategy applied: "
                                               \o strategy_name(strategy))]) :
           o \in IF strategy.kind = "TBDY"
                 THEN select_and_score(ctx.combined_df, target_params_dict)
                 ELSE stub_select_and_score(strategy, ctx.combined_df) }

\* EarthquakePipeline._generate_report; selected_df["MAGNITUDE"] and
\* selected_df["SCORE"] raise KeyError if the column is missing
_generate_report(selected, scored) ==
    IF empty(selected)
    THEN [raised |-> NoError, status |-> "warning",
          selected_count |-> 0, total_considered |-> 0]
    ELSE IF {"MAGNITUDE", "SCORE"} \subseteq selected.columns
    THEN [raised |-> NoError, status |-> "success",
          selected_count |-> Len(selected.rows), total_considered |-> Len(scored.rows)]
    ELSE [raised |-> Error("KeyError", "MAGNITUDE"), status |-> "",
          selected_count |-> 0, total_considered |-> 0]

\* no PipelineResult
NoPipelineResult == [none |-> TRUE]
IsPipelineResult(r) == "none" \notin DOMAIN r

\* EarthquakePipeline._generate_final_result: what the call does, and the
\* PipelineResult it returns
_generate_final_result(ctx) ==
    IF IsNoFrame(ctx.selected_df) \/ IsNoFrame(ctx.scored_df)
    THEN [out |-> Raises(ctx, Error("ValueError", "No data available for result generation")),
          value |-> NoPipelineResult]
    ELSE LET ctx1   == [ctx EXCEPT !.logs = Append(@, "Execution time")]
             report == _generate_report(ctx.selected_df, ctx.scored_df)
         IN  IF report.raised # NoError
             THEN [out |-> Raises(ctx1, report.raised), value |-> NoPipelineResult]
             ELSE [out |-> Returns(ctx1),
                   value |-> [selected_df |-> ctx1.selected_df,
                              scored_df |-> ctx1.scored_df,
                              report |-> report,
                              failed_providers |-> ctx1.failed_providers,
                              logs |-> ctx1.logs]]

-----------------------------------------------------------------------------
(* Specification Spec: runs of the pipeline, one after another, on one     *)
(* EarthquakePipeline with the same providers, criteria and strategy.      *)

\* the functions handed to _compose_sync / _compose_async
Funcs == <<"validate", "fetch", "combine", "strategy", "report">>

\* pc once the composed function has returned
Returned == Len(Funcs) + 1

\* func about to be called is f
AtStage(f) == pc \in 1..Len(Funcs) /\ Funcs[pc] = f

\* mutant: the loop goes on to the next function whatever the result
ComposeNext_NoBreak(i, result) == i + 1

\* _compose_sync / _compose_async: `if current_result.success: ... else: break`
ComposeNext(i, result) ==
    IF result.success THEN i + 1 ELSE Len(Funcs) + 1

\* what a run leaves behind once it has returned
Summary(result, ctx, value) ==
    [mode |-> mode, success |-> result.success, error |-> result.error,
     data |-> ctx.data, failed_providers |-> ctx.failed_providers,
     combined_df |-> ctx.combined_df, selected_df |-> ctx.selected_df,
     scored_df |-> ctx.scored_df, logs |-> ctx.logs, value |-> value]

Init ==
    /\ IdleCriteria
    /\ IdleScore
    /\ IdleSelect
    /\ outcomes \in [1..NumProviders -> Outcomes]
    /\ validation \in Validations
    /\ strategy \in Strategies
    /\ requested = ""
    /\ mode = "none"
    /\ pc = 0
    /\ context = NewContext
    /\ current_result = Fail(NoError)
    /\ pipeline_result = NoPipelineResult
    /\ executed = <<>>
    /\ calls = [i \in 1..NumProviders |-> 0]
    /\ tasks = [i \in 1..NumProviders |-> "idle"]
    /\ task_results = [i \in 1..NumProviders |-> NoResult]
    /\ completed = <<>>
    /\ history = <<>>
    /\ runs = None /\ lists = <<>>
    /\ cache = None /\ proxy_call = None

\* a fresh PipelineContext; the composed function starts with
\* current_result = Result.ok(input)
StartRun ==
    /\ pc \in {0, Returned}
    /\ Len(history) < MaxRuns
    /\ pc' = 1
    /\ context' = NewContext
    /\ current_result' = Ok("PipelineContext")
    /\ pipeline_result' = NoPipelineResult
    /\ executed' = <<>>
    /\ calls' = [i \in 1..NumProviders |-> 0]
    /\ tasks' = [i \in 1..NumProviders |-> "idle"]
    /\ task_results' = [i \in 1..NumProviders |-> NoResult]
    /\ completed' = <<>>
    /\ UNCHANGED <<history, inputVars, critVars, scoreVars, selVars>>

\* EarthquakePipeline.execute_sync
ExecuteSync ==
    /\ mode' = "sync"
    /\ StartRun

\* EarthquakePipeline.execute_async
ExecuteAsync ==
    /\ mode' = "async"
    /\ StartRun

\* _get_strategy without the registry lookup: any name is accepted
_get_strategy_AnyName(name) == Ok("ISelectionStrategy")

\* EarthquakeAPI._get_strategy
_get_strategy(name) ==
    IF name \notin strategies
    THEN Fail(Error("ValueError", "Strategy " \o name \o " not found"))
    ELSE Ok("ISelectionStrategy")

\* `if not strategy_result.success: return strategy_result`: the pipeline is
\* not entered, the call has no PipelineContext
ReturnStrategyResult(strategy_result) ==
    /\ pc \in {0, Returned}
    /\ Len(history) < MaxRuns
    /\ pc' = Returned
    /\ context' = NoContext
    /\ current_result' = strategy_result
    /\ pipeline_result' = NoPipelineResult
    /\ executed' = <<>>
    /\ calls' = [i \in 1..NumProviders |-> 0]
    /\ tasks' = [i \in 1..NumProviders |-> "idle"]
    /\ task_results' = [i \in 1..NumProviders |-> NoResult]
    /\ completed' = <<>>
    /\ UNCHANGED <<history, inputVars, critVars, scoreVars, selVars>>

\* EarthquakeAPI.run_sync
RunSync ==
    \E name \in StrategyNames :
        /\ requested' = name
        /\ IF ~_get_strategy(name).success
           THEN mode' = "sync" /\ ReturnStrategyResult(_get_strategy(name))
           ELSE ExecuteSync

\* EarthquakeAPI.run_async
RunAsync ==
    \E name \in StrategyNames :
        /\ requested' = name
        /\ IF ~_get_strategy(name).success
           THEN mode' = "async" /\ ReturnStrategyResult(_get_strategy(name))
           ELSE ExecuteAsync

\* one turn of the loop of the composed function: func returned `out`; the
\* run returns current_result when the loop ends
StageReturns(stage, out, holds, value) ==
    LET result == result_decorator(out, holds)
        next   == ComposeNext(pc, result)
    IN  /\ context' = out.context
        /\ current_result' = result
        /\ pipeline_result' = value
        /\ executed' = Append(executed, [stage |-> stage, success |-> result.success,
                                         error |-> result.error])
        /\ pc' = next
        /\ history' = IF next > Len(Funcs)
                      THEN Append(history, Summary(result, out.context, value))
                      ELSE history
        /\ UNCHANGED <<requested, mode, inputVars, critVars, scoreVars, selVars>>

\* _validate_inputs_sync / _validate_inputs_async
ValidateInputs ==
    /\ AtStage("validate")
    /\ StageReturns("validate", _validate_inputs(context), "PipelineContext",
                    NoPipelineResult)
    /\ UNCHANGED <<calls, tasks, task_results, completed>>

\* _fetch_data_sync: every provider is called once, one after another
FetchDataSync ==
    /\ AtStage("fetch")
    /\ mode = "sync"
    /\ calls' = [i \in 1..NumProviders |-> calls[i] + 1]
    /\ StageReturns("fetch", _fetch_data_sync(context), "PipelineContext",
                    NoPipelineResult)
    /\ UNCHANGED <<tasks, task_results, completed>>

\* _fetch_data_async up to `await asyncio.gather(*tasks)`: one task per
\* provider, all launched together
FetchLaunchAsync ==
    /\ AtStage("fetch")
    /\ mode = "async"
    /\ \A i \in 1..NumProviders : tasks[i] = "idle"
    /\ tasks' = [i \in 1..NumProviders |-> "pending"]
    /\ UNCHANGED <<requested, mode, pc, context, current_result, pipeline_result,
                   executed, calls, task_results, completed, history>>
    /\ UNCHANGED <<inputVars, critVars, scoreVars, selVars>>

\* a provider's task runs to completion; the tasks complete in any order
FetchTaskComplete ==
    \E i \in 1..NumProviders :
        /\ tasks[i] = "pending"
        /\ tasks' = [tasks EXCEPT ![i] = "done"]
        /\ task_results' = [task_results EXCEPT ![i] = fetch_single_provider(i)]
        /\ calls' = [calls EXCEPT ![i] = @ + 1]
        /\ completed' = Append(completed, i)
        /\ UNCHANGED <<requested, mode, pc, context, current_result,
                       pipeline_result, executed, history>>
        /\ UNCHANGED <<inputVars, critVars, scoreVars, selVars>>

\* mutant: the wait ends with the first task that completes
AllTasksDone_FirstCompleted(ts) == \E i \in 1..NumProviders : ts[i] = "done"

\* `results = await asyncio.gather(*tasks)` resumes once every task is done
AllTasksDone(ts) == \A i \in 1..NumProviders : ts[i] = "done"

\* _fetch_data_async after gather has returned: every task has completed
FetchProcessAsync ==
    /\ AtStage("fetch")
    /\ mode = "async"
    /\ AllTasksDone(tasks)
    /\ StageReturns("fetch",
                    _fetch_data_async(context, gather(task_results, completed)),
                    "PipelineContext", NoPipelineResult)
    /\ UNCHANGED <<calls, tasks, task_results, completed>>

\* _combine_data
CombineData ==
    /\ AtStage("combine")
    /\ StageReturns("combine", _combine_data(context), "PipelineContext",
                    NoPipelineResult)
    /\ UNCHANGED <<calls, tasks, task_results, completed>>

\* _apply_strategy
ApplyStrategy ==
    /\ AtStage("strategy")
    /\ \E out \in _apply_strategy(context) :
          StageReturns("strategy", out, "PipelineContext", NoPipelineResult)
    /\ UNCHANGED <<calls, tasks, task_results, completed>>

\* _generate_final_result
GenerateFinalResult ==
    /\ AtStage("report")
    /\ LET final == _generate_final_result(context)
       IN  StageReturns("report", final.out, "PipelineResult", final.value)
    /\ UNCHANGED <<calls, tasks, task_results, completed>>

Next ==
    \/ RunSync
    \/ RunAsync
    \/ ValidateInputs
    \/ FetchDataSync
    \/ FetchLaunchAsync
    \/ FetchTaskComplete
    \/ FetchProcessAsync
    \/ CombineData
    \/ ApplyStrategy
    \/ GenerateFinalResult

Spec == Init /\ [][Next]_vars

-----------------------------------------------------------------------------
(* Specification SpecRuns: two invocations of execute_sync / execute_async *)
(* in progress at the same time on one EarthquakePipeline.  Python lists   *)
(* are objects: a context holds references into `lists`, so that two       *)
(* contexts sharing a list would see each other's appends.                  *)

RunIds == {"A", "B"}

\* no invocation yet
NotStarted == [started |-> FALSE]

\* mutant: one list object serves as the default of every instance
NewList_SharedDefault(heap) == 1

\* field(default_factory=list): a list object that did not exist before
NewList(heap) == Len(heap) + 1

\* the heap once the list id exists: a new list is empty
Alloc(heap, id) == IF id \in 1..Len(heap) THEN heap ELSE Append(heap, <<>>)

\* the context with its list fields read from the heap
Deref(heap, ctx) ==
    [ctx EXCEPT !.failed_providers = heap[ctx.failed_providers],
                !.logs = heap[ctx.logs]]

\* the n-th function of the composed pipeline called on ctx
StageCall(m, n, ctx) ==
    CASE n = 1 -> {_validate_inputs(ctx)}
      [] n = 2 -> {IF m = "sync" THEN _fetch_data_sync(ctx)
                   ELSE _fetch_data_async(ctx,
                            gather([i \in 1..NumProviders |-> fetch_single_provider(i)],
                                   <<>>))}
      [] n = 3 -> {_combine_data(ctx)}
      [] n = 4 -> _apply_strategy(ctx)
      [] OTHER -> {_generate_final_result(ctx).out}

\* what a provider does in the behaviours of SpecRuns: it returns a table
\* with records, returns a failure, or raises
ConcurrentOutcomes ==
    {o \in Outcomes : \/ o.kind \in {"fail", "raise_fetch"}
                      \/ o.kind = "ok" /\ "MECHANISM" \in o.table.columns}

InitRuns ==
    /\ IdleCriteria
    /\ IdleScore
    /\ IdleSelect
    /\ outcomes \in [1..NumProviders -> ConcurrentOutcomes]
    /\ validation \in Validations
    /\ strategy \in Strategies
    /\ requested = "" /\ mode = "none" /\ pc = 0 /\ context = None
    /\ current_result = None /\ pipeline_result = None /\ executed = <<>>
    /\ calls = None /\ tasks = None /\ task_results = None
    /\ completed = <<>> /\ history = <<>>
    /\ runs = [r \in RunIds |-> NotStarted]
    /\ lists = <<>>
    /\ cache = None /\ proxy_call = None

\* execute_sync / execute_async: context = PipelineContext(...)
CreateContext ==
    \E r \in RunIds : \E m \in {"sync", "async"} :
        /\ ~runs[r].started
        /\ LET fp    == NewList(lists)
               heap1 == Alloc(lists, fp)
               lg    == NewList(heap1)
               heap2 == Alloc(heap1, lg)
           IN  /\ lists' = heap2
               /\ runs' = [runs EXCEPT ![r] =
                             [started |-> TRUE, mode |-> m, called |-> 0,
                              raised |-> NoError,
                              context |-> [NewContext EXCEPT !.failed_providers = fp,
                                                             !.logs = lg],
                              value |-> NoPipelineResult]]
        /\ UNCHANGED <<critVars, scoreVars, selVars, runVars,
                       outcomes, validation, strategy, cacheVars>>

\* one turn of the loop of the composed function of invocation r; the stage
\* appends to the lists its context refers to
CallStage ==
    \E r \in RunIds :
        /\ runs[r].started
        /\ runs[r].raised = NoError
        /\ runs[r].called < Len(Funcs)
        /\ LET n   == runs[r].called + 1
               ctx == runs[r].context
           IN  \E out \in StageCall(runs[r].mode, n, Deref(lists, ctx)) :
                  /\ lists' = [lists EXCEPT
                                 ![ctx.failed_providers] = out.context.failed_providers,
                                 ![ctx.logs] = out.context.logs]
                  /\ runs' = [runs EXCEPT ![r] =
                                [@ EXCEPT
                                   !.called = n,
                                   !.raised = out.raised,
                                   !.context = [out.context EXCEPT
                                                  !.failed_providers = ctx.failed_providers,
                                                  !.logs = ctx.logs],
                                   !.value = IF n = Len(Funcs) /\ out.raised = NoError
                                             THEN [failed_providers |-> ctx.failed_providers,
                                                   logs |-> ctx.logs]
                                             ELSE NoPipelineResult]]
        /\ UNCHANGED <<critVars, scoreVars, selVars, runVars,
                       outcomes, validation, strategy, cacheVars>>

NextRuns == CreateContext \/ CallStage

SpecRuns == InitRuns /\ [][NextRuns]_vars

-----------------------------------------------------------------------------
(* Specification SpecCache.  ProvidersFactory.py, CacheManager.py: fetches *)
(* through CachedProviderProxy objects that share one CacheManager, while  *)
(* the clock advances.                                                     *)

\* the clock stops here
MaxTime == 2

\* the providers the proxies wrap
CacheProviders == {"AFAD", "PEER"}

\* a second valid SearchCriteria
other_criteria == WithFields(BlankCriteria, ("min_magnitude" :> RInt(5)))

\* the SearchCriteria objects a caller passes
CachedCriteria == {search_criteria, other_criteria}

\* provider.map_criteria(context.search_criteria): a dict, which is what the
\* pipeline passes to fetch_data_sync / fetch_data_async
mapped_criteria == [dict |-> "params"]

\* what a fetch is called with
ProxyCriteria == CachedCriteria \cup {mapped_criteria}

\* CacheManager(expiry_hours=...): the expiry ages, in steps of the clock
ExpiryAges == {0, 1}

\* no file of that name in the cache directory
NoFile == [none |-> TRUE]
IsNoFile(file) == "none" \in DOMAIN file

\* a table with records, as a provider returns it
FetchedTable == [columns |-> {"RSN"}, rows |-> <<[RSN |-> RInt(1)]>>]

\* what the wrapped provider's fetch returns when it is called
AdapterResults(provider_name) ==
    {ProviderOk(FetchedTable), ProviderOk(EmptyFrame),
     ProviderFail(ProviderError(provider_name, "fetch failed"))}

\* CacheManager._generate_key: the digest of the name and the criteria's
\* JSON, taken to be free of collisions
_generate_key(provider_name, crit) == <<provider_name, crit>>

\* CacheManager(cache_dir, expiry_hours) at time 0, the directory empty
CacheManager(expiry) ==
    [files |-> [key \in CacheProviders \X CachedCriteria |-> NoFile],
     now |-> 0, expiry_seconds |-> expiry]

\* CacheManager.get on a readable file: the cache as the call leaves it and
\* the value returned
get(c, provider_name, crit) ==
    LET key  == _generate_key(provider_name, crit)
        file == c.files[key]
    IN  IF IsNoFile(file)
        THEN [cache |-> c, value |-> NoFrame]
        ELSE IF c.now - file.mtime > c.expiry_seconds
             THEN [cache |-> [c EXCEPT !.files[key] = NoFile], value |-> NoFrame]
             ELSE [cache |-> c, value |-> file.df]

\* CacheManager.set: the cache as the call leaves it
set(c, provider_name, crit, df) ==
    IF IsNoFrame(df) \/ empty(df)
    THEN c
    ELSE [c EXCEPT !.files[_generate_key(provider_name, crit)] =
                      [df |-> df, mtime |-> c.now]]

\* what a call on the proxy does
ProxyOutcome(op, provider_name, crit, c, raised, adapter_called, result) ==
    [op |-> op, provider |-> provider_name, criteria |-> crit, cache |-> c,
     raised |-> raised, adapter_called |-> adapter_called, result |-> result]

\* CachedProviderProxy.fetch_data_async; adapter is what the wrapped
\* provider returns if it is called.  criteria.model_dump_json() raises on
\* a dict
fetch_data_async(c, provider_name, crit, adapter) ==
    IF ~IsSearchCriteria(crit)
    THEN ProxyOutcome("fetch_data_async", provider_name, crit, c,
                      "AttributeError", FALSE, NoResult)
    ELSE LET cached == get(c, provider_name, crit)
         IN  IF ~IsNoFrame(cached.value)
             THEN ProxyOutcome("fetch_data_async", provider_name, crit,
                               cached.cache, "none", FALSE, ProviderOk(cached.value))
             ELSE ProxyOutcome("fetch_data_async", provider_name, crit,
                               IF adapter.success
                               THEN set(cached.cache, provider_name, crit, adapter.value)
                               ELSE cached.cache,
                               "none", TRUE, adapter)

\* CachedProviderProxy.__getattr__("fetch_data_sync")(criteria): the wrapped
\* provider's own method
fetch_data_sync(c, provider_name, crit, adapter) ==
    ProxyOutcome("fetch_data_sync", provider_name, crit, c, "none", TRUE, adapter)

\* no call has been made
NoCall == [op |-> "none"]

InitCache ==
    /\ IdleCriteria
    /\ IdleScore
    /\ IdleSelect
    /\ outcomes = None /\ validation = "ok" /\ strategy = None
    /\ requested = "" /\ mode = "none" /\ pc = 0 /\ context = None
    /\ current_result = None /\ pipeline_result = None /\ executed = <<>>
    /\ calls = None /\ tasks = None /\ task_results = None
    /\ completed = <<>> /\ history = <<>>
    /\ runs = None /\ lists = <<>>
    /\ cache \in {CacheManager(expiry) : expiry \in ExpiryAges}
    /\ proxy_call = NoCall

\* time.time() advances
Tick ==
    /\ cache.now < MaxTime
    /\ cache' = [cache EXCEPT !.now = @ + 1]
    /\ UNCHANGED <<critVars, scoreVars, selVars, runVars,
                   outcomes, validation, strategy, runs, lists, proxy_call>>

\* await proxy.fetch_data_async(criteria)
FetchAsync ==
    \E provider_name \in CacheProviders : \E c \in ProxyCriteria :
      \E adapter \in AdapterResults(provider_name) :
        /\ proxy_call' = [fetch_data_async(cache, provider_name, c, adapter)
                             EXCEPT !.cache = NoFile]
        /\ cache' = fetch_data_async(cache, provider_name, c, adapter).cache
        /\ UNCHANGED <<critVars, scoreVars, selVars, runVars,
                       outcomes, validation, strategy, runs, lists>>

\* proxy.fetch_data_sync(criteria)
FetchSync ==
    \E provider_name \in CacheProviders : \E c \in ProxyCriteria :
      \E adapter \in AdapterResults(provider_name) :
        /\ proxy_call' = [fetch_data_sync(cache, provider_name, c, adapter)
                             EXCEPT !.cache = NoFile]
        /\ cache' = fetch_data_sync(cache, provider_name, c, adapter).cache
        /\ UNCHANGED <<critVars, scoreVars, selVars, runVars,
                       outcomes, validation, strategy, runs, lists>>

NextCache == Tick \/ FetchAsync \/ FetchSync

SpecCache == InitCache /\ [][NextCache]_vars

\* the cache holds an entry for the key that get would return
Unexpired(c, key) ==
    /\ ~IsNoFile(c.files[key])
    /\ c.now - c.files[key].mtime <= c.expiry_seconds

\* what the claim says of a fetch that took the cache from c to d
FetchFollowsCache(c, d, made) ==
    LET key   == _generate_key(made.provider, made.criteria)
        fresh == Unexpired(c, key)
    IN  /\ made.adapter_called <=> ~fresh
        /\ fresh => made.result = ProviderOk(c.files[key].df) /\ d = c
        /\ ~fresh /\ made.result.success /\ ~empty(made.result.value)
              => d.files[key] = [df |-> made.result.value, mtime |-> c.now]
        /\ ~fresh /\ ~made.result.success => IsNoFile(d.files[key])
        /\ \A other \in DOMAIN c.files : other # key => d.files[other] = c.files[other]

\* C29: a fetch through the cache proxy calls the wrapped provider exactly
\* when the cache holds no unexpired entry for (provider name, criteria); a
\* hit returns the cached table as a success, an expired entry is removed and
\* the provider called, and after a miss a successful table with records is
\* stored under the key while a failure stores nothing.
C29_AdapterCalledIffNoUnexpiredEntry ==
    [][(cache'.now = cache.now /\ IsSearchCriteria(proxy_call'.criteria))
          => FetchFollowsCache(cache, cache', proxy_call')]_vars

\* the same of the fetches made with fetch_data_async
AsyncFetchFollowsCache ==
    [][(cache'.now = cache.now /\ IsSearchCriteria(proxy_call'.criteria)
          /\ proxy_call'.op = "fetch_data_async")
          => FetchFollowsCache(cache, cache', proxy_call')]_vars

\* a fetch_data_async with the criteria the pipeline passes raises
MappedCriteriaNeverRaise == proxy_call.op # "none" => proxy_call.raised = "none"

-----------------------------------------------------------------------------
(* Claims about the pipeline (checked under Spec).                         *)

\* the providers whose call returns a success Result
Succeeding == {i \in 1..NumProviders : outcomes[i].kind = "ok"}

\* the names of the providers whose call fails, raises or times out, in
\* provider order
FailingNames ==
    LET failing == SelectSeq([i \in 1..NumProviders |-> i],
                             LAMBDA i : i \notin Succeeding)
    IN  [k \in 1..Len(failing) |-> providers[failing[k]]]

\* the stage order the specification gives
StageOrder == <<"validate", "fetch", "combine", "strategy", "report">>

\* C2: the fetch stage, sequential or concurrent, succeeds if and only if at
\* least one source returns a success Result and fails with NoDataError if and
\* only if all sources fail; every source that returns a failure, raises or
\* times out is recorded in failed_providers, and no succeeding source is.
C2_FetchPartialFailurePolicy ==
    \A k \in 1..Len(executed) :
        executed[k].stage = "fetch" =>
            /\ executed[k].success <=> Succeeding # {}
            /\ ~executed[k].success => executed[k].error.type = "NoDataError"
            /\ Len(context.failed_providers) = NumProviders - Cardinality(Succeeding)
            /\ \A i \in 1..NumProviders :
                  (i \notin Succeeding) <=>
                      (\E j \in 1..Len(context.failed_providers) :
                          context.failed_providers[j] = providers[i])

\* C2 witness: a concurrent fetch that succeeded although a source raised or
\* timed out, after a sequential run that did the same
C2_Witness ==
    /\ mode = "async"
    /\ \E k \in 1..Len(executed) : executed[k].stage = "fetch" /\ executed[k].success
    /\ \E i \in 1..NumProviders :
          outcomes[i].kind \in {"raise_map", "raise_fetch", "timeout"}
    /\ context.failed_providers # <<>>
    /\ \E h \in 1..Len(history) :
          /\ history[h].mode = "sync"
          /\ history[h].data # None
          /\ history[h].failed_providers # <<>>

AllNull(df, c) == \A i \in 1..Len(df.rows) : IsNa(df.rows[i][c])

\* the combine stage of the current run returned normally
CombineSucceeded ==
    /\ Len(executed) >= 3
    /\ executed[3].stage = "combine"
    /\ executed[3].success

\* C13: after a successful combine stage the combined table has no column
\* whose values are all null, whatever the list of fetched tables was.
C13_CombinedHasNoAllNullColumn ==
    CombineSucceeded =>
        /\ ~IsNoFrame(context.combined_df)
        /\ \A c \in context.combined_df.columns : ~AllNull(context.combined_df, c)

\* C13 witness: a combine that succeeded over fetched tables one of which had
\* an all-null column
C13_Witness ==
    /\ CombineSucceeded
    /\ context.combined_df.rows # <<>>
    /\ \E k \in 1..Len(context.data) :
          \E c \in context.data[k].columns : AllNull(context.data[k], c)

\* C14: a run_sync / run_async call whose strategy name is not registered
\* returns a failure Result before the pipeline starts: no stage is executed,
\* no context is created and no source is fetched.
C14_UnknownStrategyFailsBeforePipeline ==
    (pc = Returned /\ requested \notin strategies) =>
        /\ ~current_result.success
        /\ current_result.error.type = "ValueError"
        /\ ~IsPipelineResult(pipeline_result)
        /\ executed = <<>>
        /\ context = NoContext
        /\ \A i \in 1..NumProviders :
              calls[i] = 0 /\ tasks[i] = "idle" /\ task_results[i] = NoResult

\* C14 witness: after a run that went through the pipeline, a call with an
\* unregistered name has returned
C14_Witness ==
    /\ pc = Returned
    /\ requested \notin strategies
    /\ history # <<>>
    /\ ~current_result.success

\* no row of the combined table reaches min_score when it is scored against
\* the run's search_criteria
NoneQualifies(df) ==
    \A i \in 1..Len(df.rows) :
        RLt(_calculate_total_score(df.rows[i], search_criteria), RunConfig.min_score)

\* C15: when no scored record has SCORE >= min_score the selection engine
\* returns an empty selected table without an error, and the pipeline run
\* still ends in a success Result.
C15_EmptySelectionRunSucceeds ==
    ( /\ pc = Returned
      /\ requested \in strategies
      /\ strategy.kind = "TBDY"
      /\ CombineSucceeded
      /\ NoneQualifies(context.combined_df) )
    => /\ current_result.success
       /\ IsPipelineResult(pipeline_result)
       /\ empty(pipeline_result.selected_df)

\* C16: the score-and-select stage hands the run's search_criteria to
\* strategy.select_and_score, so with the repository's strategy the stage
\* returns a scored table whose SCORE column is the similarity of each
\* combined record to the effective targets of that criteria.
C16_ScoredAgainstSearchCriteria ==
    ( /\ strategy.kind = "TBDY"
      /\ Len(executed) >= 4
      /\ executed[4].stage = "strategy" )
    => /\ executed[4].success
       /\ ~IsNoFrame(context.scored_df)
       /\ Len(context.scored_df.rows) = Len(context.combined_df.rows)
       /\ \A i \in 1..Len(context.scored_df.rows) :
             context.scored_df.rows[i].SCORE
                = _calculate_total_score(context.combined_df.rows[i], search_criteria)

\* column c holds text in one of the fetched tables of the run
TextColumn(c) ==
    \E k \in 1..Len(context.data) :
        /\ c \in context.data[k].columns
        /\ \E i \in 1..Len(context.data[k].rows) : IsText(context.data[k].rows[i][c])

\* C21: after combine every cell that was null is filled by its column's
\* type: a null of a numeric column is 0, a null of a text column is the
\* empty string and never 0 -- so every cell of a text column is text and
\* every cell of a numeric column is a number.
C21_NullsFilledByColumnType ==
    CombineSucceeded =>
        \A c \in context.combined_df.columns :
            \A i \in 1..Len(context.combined_df.rows) :
                IF TextColumn(c)
                THEN IsText(context.combined_df.rows[i][c])
                ELSE IsNumber(context.combined_df.rows[i][c])

\* the fetched tables of the run that combine keeps: non-empty, with at least
\* one column that is not all-null
ValidFetched ==
    SelectSeq(context.data,
              LAMBDA df : /\ df.rows # <<>>
                          /\ \E c \in df.columns : ~AllNull(df, c))

\* rows a and b agree on every cell that is not null in a
SameRecord(a, b) ==
    \A c \in DOMAIN a : ~IsNa(a[c]) => (c \in DOMAIN b /\ b[c] = a[c])

\* C22: combine neither reorders nor deduplicates nor drops records: the rows
\* of the combined table are the rows of the valid fetched tables, table
\* after table in source-list order and in each table's own order, so the row
\* count is the sum of their row counts and duplicates all remain.
C22_CombineKeepsRowsInOrder ==
    CombineSucceeded =>
        LET fetched == ChainRows(ValidFetched, 1)
        IN  /\ Len(context.combined_df.rows) = Len(fetched)
            /\ \A i \in 1..Len(fetched) :
                  SameRecord(fetched[i], context.combined_df.rows[i])

\* C22 witness: two sources returned the same valid table, and the combined
\* table holds its records twice
C22_Witness ==
    /\ CombineSucceeded
    /\ Len(ValidFetched) = 2
    /\ ValidFetched[1] = ValidFetched[2]
    /\ Len(ValidFetched[1].rows) = 2
    /\ Len(context.combined_df.rows) = 4

\* the combine stage of the current run has been called
CombineCalled == Len(executed) >= 3 /\ executed[3].stage = "combine"

\* C23: combine fails, with NoDataError, exactly when no fetched table is
\* non-empty with at least one non-null column; otherwise it succeeds and the
\* combined table has at least one row and one column.  So a run in which
\* every succeeding source returned an empty table passes the fetch stage and
\* fails at combine with NoDataError.
C23_CombineFailsIffNoValidTable ==
    /\ CombineCalled =>
          /\ executed[3].success <=> ValidFetched # <<>>
          /\ ~executed[3].success => executed[3].error.type = "NoDataError"
          /\ executed[3].success =>
                /\ context.combined_df.rows # <<>>
                /\ context.combined_df.columns # {}
    /\ ( /\ pc = Returned
         /\ requested \in strategies
         /\ validation = "ok"
         /\ Succeeding # {}
         /\ \A i \in Succeeding : outcomes[i].table = EmptyFrame )
       => /\ Len(executed) = 3
          /\ executed[2].success
          /\ ~executed[3].success
          /\ current_result.error.type = "NoDataError"

\* C23 witness: one source failed, the other returned an empty table; the
\* fetch stage passed and the run returned the NoDataError of combine
C23_Witness ==
    /\ pc = Returned
    /\ CombineCalled
    /\ executed[2].success
    /\ ~executed[3].success
    /\ Succeeding # {} /\ Succeeding # 1..NumProviders
    /\ \A i \in Succeeding : outcomes[i].table = EmptyFrame
    /\ current_result.error.type = "NoDataError"

\* the tables the succeeding providers return, in provider order
SucceedingTables ==
    LET ok == SelectSeq([i \in 1..NumProviders |-> i], LAMBDA i : i \in Succeeding)
    IN  [k \in 1..Len(ok) |-> outcomes[ok[k]].table]

\* C24: in concurrent mode the outcome of the fetch stage does not depend on
\* the order in which the source tasks complete: the list of fetched tables
\* is positioned by source, failed_providers is in source order, and so every
\* concurrent run over the same sources ends with the same fetched, combined,
\* scored and selected tables.
C24_FetchIndependentOfCompletionOrder ==
    /\ (mode = "async" /\ Len(executed) >= 2 /\ executed[2].stage = "fetch") =>
          /\ context.failed_providers = FailingNames
          /\ executed[2].success => context.data = SucceedingTables
    /\ \A a \in 1..Len(history) : \A b \in 1..Len(history) :
          (history[a].mode = "async" /\ history[b].mode = "async") =>
              /\ history[a].success = history[b].success
              /\ history[a].data = history[b].data
              /\ history[a].failed_providers = history[b].failed_providers
              /\ history[a].combined_df = history[b].combined_df
              /\ history[a].scored_df = history[b].scored_df
              /\ history[a].selected_df = history[b].selected_df

\* C24 witness: the second of two concurrent runs has returned, its tasks
\* having completed last source first; both runs succeeded on two different
\* fetched tables
C24_Witness ==
    /\ pc = Returned /\ mode = "async"
    /\ Len(completed) >= 2 /\ completed[1] > completed[2]
    /\ Len(history) = 2
    /\ history[1].mode = "async" /\ history[2].mode = "async"
    /\ history[1].success /\ history[2].success
    /\ Len(history[2].data) = 2
    /\ history[2].data[1] # history[2].data[2]

\* s is one of the entries of the run's log
Logged(s) == \E j \in 1..Len(context.logs) : context.logs[j] = s

\* C25: in concurrent mode every recorded fetch outcome is attributed to the
\* source that produced it: an "[OK] <name> success" entry names a source
\* whose fetch succeeded in this run, and every element of failed_providers
\* names a source whose fetch failed.
C25_OutcomesAttributedToSource ==
    (mode = "async" /\ Len(executed) >= 2 /\ executed[2].stage = "fetch") =>
        \A i \in 1..NumProviders :
            /\ Logged("[OK] " \o providers[i] \o " success") => i \in Succeeding
            /\ (\E j \in 1..Len(context.failed_providers) :
                   context.failed_providers[j] = providers[i]) => i \notin Succeeding

\* the fetch stage of the current run has returned
FetchReturned == Len(executed) >= 2 /\ executed[2].stage = "fetch"

\* C26: in concurrent mode the source tasks are launched together; the fetch
\* stage returns, and combine begins, only after every task has completed;
\* and a task that is still running is never cancelled by the failure or the
\* completion of another: it stays running until it completes.
C26_GatherJoinsAllTasks ==
    /\ [](mode = "async" =>
            /\ (\A i \in 1..NumProviders : tasks[i] = "idle")
                  \/ (\A i \in 1..NumProviders : tasks[i] # "idle")
            /\ FetchReturned =>
                  \A i \in 1..NumProviders :
                      /\ tasks[i] = "done"
                      /\ calls[i] = 1
                      /\ task_results[i] = fetch_single_provider(i))
    /\ [][\A i \in 1..NumProviders :
              tasks[i] = "pending" => tasks'[i] \in {"pending", "done"}]_vars

\* C26 witness: combine has been called in a concurrent run in which the
\* first source failed before the second, succeeding, completed
C26_Witness ==
    /\ mode = "async"
    /\ Len(executed) >= 3
    /\ completed = <<1, 2>>
    /\ ~task_results[1].success
    /\ task_results[2].success

\* what n stage calls of an invocation running alone leave behind: the
\* context and the exception raised by the last call
RECURSIVE SoloOuts(_, _)
SoloOuts(m, n) ==
    IF n = 0 THEN {Returns(NewContext)}
    ELSE UNION {StageCall(m, n, o.context) :
                   o \in {x \in SoloOuts(m, n - 1) : x.raised = NoError}}

\* the list objects invocation r refers to, from its context and its result
ListsOf(r) ==
    IF ~runs[r].started THEN {}
    ELSE {runs[r].context.failed_providers, runs[r].context.logs}
         \cup (IF IsPipelineResult(runs[r].value)
               THEN {runs[r].value.failed_providers, runs[r].value.logs}
               ELSE {})

\* C27: two runs in progress at the same time (or one after another) on the
\* same pipeline share no run state: each invocation has its own context,
\* whose lists no other invocation refers to, and at every moment the logs,
\* failed source names and tables of a run are those the run would have
\* recorded alone; its PipelineResult carries its own lists.
C27_RunsShareNoState ==
    \A r \in RunIds :
        runs[r].started =>
            /\ \A s \in RunIds \ {r} : ListsOf(r) \cap ListsOf(s) = {}
            /\ runs[r].context.failed_providers # runs[r].context.logs
            /\ [context |-> Deref(lists, runs[r].context), raised |-> runs[r].raised]
                  \in SoloOuts(runs[r].mode, runs[r].called)
            /\ IsPipelineResult(runs[r].value) =>
                  /\ runs[r].value.logs = runs[r].context.logs
                  /\ runs[r].value.failed_providers = runs[r].context.failed_providers

\* C27 witness: both invocations are between two stages, each with a source
\* that failed and entries in its log, while one is a stage ahead
C27_Witness ==
    /\ \A r \in RunIds :
          /\ runs[r].started
          /\ runs[r].raised = NoError
          /\ lists[runs[r].context.failed_providers] # <<>>
          /\ lists[runs[r].context.logs] # <<>>
    /\ runs["A"].called = 2
    /\ runs["B"].called = 3

\* record i of the combined table had no value for column c where it was
\* fetched: its table lacked the column, or the cell was null
Lacked(i, c) ==
    LET fetched == ChainRows(ValidFetched, 1)
    IN  c \notin DOMAIN fetched[i] \/ IsNa(fetched[i][c])

\* the score-and-select stage of the current run has been called
StrategyCalled == Len(executed) >= 4 /\ executed[4].stage = "strategy"

CombinedHasNoNullCell ==
    CombineSucceeded =>
        \A i \in 1..Len(context.combined_df.rows) :
            \A c \in context.combined_df.columns :
                ~IsNa(context.combined_df.rows[i][c])

\* the engine, applied to a record of the combined table with the run's
\* search_criteria, skips no parameter for a missing field unless the whole
\* table lacks the column, and a field the source lacked counts as 0
EngineScoresFilledFieldAsZero ==
    CombineSucceeded =>
        \A i \in 1..Len(context.combined_df.rows) :
            \A k \in KeySet :
                LET c == SCORING_MAP[k].column
                IN  /\ FieldMissing(context.combined_df.rows[i], k)
                        <=> c \notin context.combined_df.columns
                    /\ (c \in context.combined_df.columns /\ Lacked(i, c))
                        => context.combined_df.rows[i][c] = RInt(0)

\* C4: the stages run in the order validate, fetch, combine, score-and-select,
\* build-report; no stage runs after a stage that failed (no source is called
\* after a failed validation); the run returns the first failure unchanged;
\* a PipelineResult is returned only when all five stages succeeded.
C4_StagesInOrderHaltOnFailure ==
    /\ Len(executed) <= Len(StageOrder)
    /\ \A k \in 1..Len(executed) :
          /\ executed[k].stage = StageOrder[k]
          /\ k < Len(executed) => executed[k].success
    /\ (\E i \in 1..NumProviders : calls[i] > 0 \/ tasks[i] # "idle")
          => (Len(executed) >= 1 /\ executed[1].success)
    /\ IsPipelineResult(pipeline_result)
          => /\ Len(executed) = Len(StageOrder)
             /\ \A k \in 1..Len(executed) : executed[k].success
    /\ (pc = Returned /\ executed # <<>>)
          => /\ current_result.success = executed[Len(executed)].success
             /\ current_result.error = executed[Len(executed)].error
             /\ current_result.success <=> IsPipelineResult(pipeline_result)
             /\ ~current_result.success => current_result.holds = "None"

\* C4 witness: a run that returned the failure of its third stage, the two
\* last stages never called
C4_Witness ==
    /\ pc = Returned
    /\ Len(executed) = 3
    /\ executed[1].success /\ executed[2].success /\ ~executed[3].success
    /\ \E i \in 1..NumProviders : calls[i] > 0

=============================================================================
